---- MODULE Spec2Model ----
(***************************************************************************)
(* A model of the dit TFTP library and server (github.com/Joe-Degs/dit).   *)
(*                                                                         *)
(*   SpecCodec  the packet codec of tftp.go: Marshal (bytes -> packet)     *)
(*              and Unmarshal (packet -> bytes), byte for byte.            *)
(*   SpecFile   the FileBuffer (file view) with its bufio reader/writer    *)
(*              and the retransmission buffer.                             *)
(*   SpecConn   Conn: the listener's AcceptRange, the transfer endpoints   *)
(*              it creates, and the client side connect.                   *)
(*   SpecServer the server: newconn, the pool of srvconns, the tasks and   *)
(*              the main loop of server.start.                             *)
(*   SpecShutdown  the goroutines of server.start and handleSignals from   *)
(*              a signal to the end of the process.                        *)
(*   SpecSnoop  the loop of SnoopWithPacket on a client Conn.              *)
(*                                                                         *)
(* Bytes are naturals in 0..255, Go strings and []byte are sequences of    *)
(* bytes.  A nil slice or map and an empty one are the same value here.    *)
(***************************************************************************)
EXTENDS Integers, Sequences, FiniteSets, TLC

VARIABLES
    cPhase,   \* codec: "input" | "encoded" | "again" | "decoded" | "reencoded"
    cSrc,     \* codec: "packet" (input is a packet) | "wire" (a request or
              \* an OAck assembled from strings) | "raw" (a datagram)
    cPkt,     \* codec: the packet given to Unmarshal (NoPacket for wire inputs)
    cIn,      \* codec: the parts a wire input was assembled from
    cWire,    \* codec: the bytes on the wire
    cTail,    \* codec: the bytes of the backing array behind cWire
    cOut,     \* codec: the result of Marshal(cWire)
    cRe,      \* codec: the bytes of a second Unmarshal
    fb,       \* file view: the FileBuffer object
    fLast,    \* file view: the last operation, its arguments and results
    lst,      \* conn: the listening Conn
    eps,      \* conn: the endpoints AcceptRange has returned
    cli,      \* conn: the client Conn (Dial + connect)
    net,      \* conn: packets written so far (error replies and data)
    nLast,    \* conn: the last socket operation and its result
    srv,      \* server: configuration, pool, srvconns, tasks, open files
    disk,     \* server: the files below and beside the base directory
    sLast,    \* server: the last request set up, its arguments and results
    sd,       \* shutdown: the goroutines of server.start and handleSignals
    snp       \* snoop: the loop of SnoopWithPacket, its Conn and its peers

codecVars == <<cPhase, cSrc, cPkt, cIn, cWire, cTail, cOut, cRe>>
fileVars  == <<fb, fLast>>
connVars  == <<lst, eps, cli, net, nLast>>
serverVars == <<srv, disk, sLast>>
procVars  == <<sd, snp>>
vars      == <<cPhase, cSrc, cPkt, cIn, cWire, cTail, cOut, cRe, fb, fLast,
               lst, eps, cli, net, nLast, srv, disk, sLast, sd, snp>>

-----------------------------------------------------------------------------
(* Bounds of the model *)

\* most null terminated strings after filename and mode in a wire input
MaxOptStrs == 4

\* size of the internal buffer of a bufio.Reader and a bufio.Writer (4096 in
\* the Go library, scaled down)
BufioSize == 2

\* most bytes in a backing file that is read
MaxFile == 3


\* most bytes the backing file of a writer takes before the disk is full
DiskRoom == 3

\* most WithRequest calls on one FileBuffer
MaxWithRequest == 2

\* most transfer tasks the accept goroutine starts before the process ends
MaxTasks == 3

\* most rounds of the loop of SnoopWithPacket
MaxSnoop == 3

\* the payload length of a Data packet that is not the last one (512 in the
\* source, scaled down)
SnoopBlock == 2

\* most endpoints the listener hands out
MaxEndpoints == 1

\* threads that call Accept on the listener
MaxThreads == 2

\* requests the server accepts in one run
MaxAccepts == 2

-----------------------------------------------------------------------------
(* Generic helpers *)

Min(a, b) == IF a < b THEN a ELSE b

Range(s) == {s[i] : i \in 1..Len(s)}

\* all orderings of the elements of a finite set
Perms(S) == {p \in [1..Cardinality(S) -> S] : Range(p) = S}

RECURSIVE Concat(_)
Concat(ss) == IF ss = <<>> THEN <<>> ELSE Head(ss) \o Concat(Tail(ss))

-----------------------------------------------------------------------------
(* tftp.go: opcodes, options, error codes *)

Rrq   == 1
Wrq   == 2
Data  == 3
Ack   == 4
Error == 5
OAck  == 6

Blksize    == 0
Timeout    == 1
Tsize      == 2
Windowsize == 3
Unknown    == 4

NotDefined        == 0
FileNotFound      == 1
AccessViolation   == 2
DiskFull          == 3
IllegalOperation  == 4
UnknownTID        == 5
FileAlreadyExists == 6
NoSuchUser        == 7
RequestDenied     == 8

\* ASCII
sBlksize    == <<98, 108, 107, 115, 105, 122, 101>>
sTimeout    == <<116, 105, 109, 101, 111, 117, 116>>
sTsize      == <<116, 115, 105, 122, 101>>
sWindowsize == <<119, 105, 110, 100, 111, 119, 115, 105, 122, 101>>
sUnknown    == <<117, 110, 107, 110, 111, 119, 110>>
sOctet      == <<111, 99, 116, 101, 116>>
sMail       == <<109, 97, 105, 108>>
sNetascii   == <<110, 101, 116, 97, 115, 99, 105, 105>>

\* strings.ToLower on ASCII input
ToLower(s) == [i \in 1..Len(s) |-> IF s[i] \in 65..90 THEN s[i] + 32 ELSE s[i]]

\* unicode/utf8.Valid
IsCont(b) == b \in 128..191

RECURSIVE utf8Valid(_)
utf8Valid(s) ==
    IF s = <<>> THEN TRUE
    ELSE LET b == s[1]
             n == Len(s)
         IN  IF b < 128 THEN utf8Valid(Tail(s))
             ELSE IF b \in 194..223
                  THEN n >= 2 /\ IsCont(s[2]) /\ utf8Valid(SubSeq(s, 3, n))
             ELSE IF b \in 224..239
                  THEN /\ n >= 3
                       /\ s[2] \in (IF b = 224 THEN 160..191
                                    ELSE IF b = 237 THEN 128..159 ELSE 128..191)
                       /\ IsCont(s[3])
                       /\ utf8Valid(SubSeq(s, 4, n))
             ELSE IF b \in 240..244
                  THEN /\ n >= 4
                       /\ s[2] \in (IF b = 240 THEN 144..191
                                    ELSE IF b = 244 THEN 128..143 ELSE 128..191)
                       /\ IsCont(s[3]) /\ IsCont(s[4])
                       /\ utf8Valid(SubSeq(s, 5, n))
             ELSE FALSE

\* strconv.Itoa
RECURSIVE natDigits(_)
natDigits(n) == IF n < 10 THEN <<48 + n>>
                ELSE Append(natDigits(n \div 10), 48 + (n % 10))

Itoa(n) == IF n < 0 THEN <<45>> \o natDigits(0 - n) ELSE natDigits(n)

\* strconv.Atoi: an optional sign, then one or more decimal digits
RECURSIVE digitsVal(_)
digitsVal(s) == IF s = <<>> THEN 0
                ELSE digitsVal(SubSeq(s, 1, Len(s) - 1)) * 10 + (s[Len(s)] - 48)

Atoi(s) ==
    LET signed == Len(s) > 0 /\ s[1] \in {43, 45}
        body   == IF signed THEN Tail(s) ELSE s
        ok     == Len(body) > 0 /\ \A i \in 1..Len(body) : body[i] \in 48..57
    IN  IF ~ok THEN [val |-> 0, err |-> TRUE]
        ELSE [val |-> IF signed /\ s[1] = 45 THEN 0 - digitsVal(body)
                      ELSE digitsVal(body),
              err |-> FALSE]

\* ValidateOptValue with the ends of each range excluded
ValidateOptValueExclusive(opt, val) ==
    LET a == Atoi(val)
        inRange ==
            CASE opt = Blksize    -> a.val > 8 /\ a.val < 65464
              [] opt = Timeout    -> a.val > 1 /\ a.val < 255
              [] opt = Tsize      -> TRUE
              [] opt = Windowsize -> a.val > 1 /\ a.val < 65535
              [] OTHER            -> FALSE
    IN  IF a.err THEN [val |-> a.val, err |-> TRUE]
        ELSE IF inRange THEN [val |-> a.val, err |-> FALSE]
        ELSE [val |-> 0, err |-> TRUE]

ValidateOptValue(opt, val) ==
    LET a == Atoi(val)
        inRange ==
            CASE opt = Blksize    -> a.val >= 8 /\ a.val <= 65464
              [] opt = Timeout    -> a.val >= 1 /\ a.val <= 255
              [] opt = Tsize      -> TRUE
              [] opt = Windowsize -> a.val >= 1 /\ a.val <= 65535
              [] OTHER            -> FALSE
    IN  IF a.err THEN [val |-> a.val, err |-> TRUE]
        ELSE IF inRange THEN [val |-> a.val, err |-> FALSE]
        ELSE [val |-> 0, err |-> TRUE]

MarshalOpts(opt) ==
    LET l == ToLower(opt)
    IN  CASE l = sBlksize    -> Blksize
          [] l = sTimeout    -> Timeout
          [] l = sTsize      -> Tsize
          [] l = sWindowsize -> Windowsize
          [] OTHER           -> Unknown

UnmarshalOpts(opt) ==
    CASE opt = Blksize    -> sBlksize
      [] opt = Timeout    -> sTimeout
      [] opt = Tsize      -> sTsize
      [] opt = Windowsize -> sWindowsize
      [] OTHER            -> sUnknown

\* binary.BigEndian
PutUint16(v) == <<(v \div 256) % 256, v % 256>>
Uint16(b)    == b[1] * 256 + b[2]

nullTerminate(s) == Append(s, 0)

-----------------------------------------------------------------------------
(* tftp.go: the packet structures.  One record shape serves the five Go    *)
(* structs; a field a struct does not have keeps its zero value.           *)

EmptyOpts == [o \in {} |-> 0]

ZeroPacket == [Opcode |-> 0, Filename |-> <<>>, Mode |-> <<>>,
               Options |-> EmptyOpts, BlockNumber |-> 0, Data |-> <<>>,
               ErrorCode |-> 0, ErrMsg |-> <<>>]

NoPacket == [ZeroPacket EXCEPT !.Opcode = 0 - 1]

ReadWriteRequest(op, filename, mode, options) ==
    [ZeroPacket EXCEPT !.Opcode = op, !.Filename = filename, !.Mode = mode,
                       !.Options = options]
DataPacket(block, data) ==
    [ZeroPacket EXCEPT !.Opcode = Data, !.BlockNumber = block, !.Data = data]
AckPacket(block) ==
    [ZeroPacket EXCEPT !.Opcode = Ack, !.BlockNumber = block]
ErrorPacket(code, msg) ==
    [ZeroPacket EXCEPT !.Opcode = Error, !.ErrorCode = code, !.ErrMsg = msg]
OAckPacket(options) ==
    [ZeroPacket EXCEPT !.Opcode = OAck, !.Options = options]

\* results of a decode: a packet, an error value, or a run-time panic
Ok(p)  == [kind |-> "ok", pkt |-> p]
Failed == [kind |-> "err", pkt |-> NoPacket]
Panic  == [kind |-> "panic", pkt |-> NoPacket]
NoResult == [kind |-> "none", pkt |-> NoPacket]

\* getNullTerminatedStrings: start is the (1-based) position after the last
\* null that ended a non-empty string; an empty string does not move it.
RECURSIVE gnts(_, _, _, _)
gnts(strs, i, start, acc) ==
    IF i > Len(strs) THEN [strVals |-> acc, err |-> FALSE]
    ELSE IF strs[i] = 0 /\ i - start >= 1
         THEN LET bytes == SubSeq(strs, start, i - 1)
              IN  IF ~utf8Valid(bytes)
                  THEN [strVals |-> acc, err |-> TRUE]
                  ELSE gnts(strs, i + 1, i + 1, Append(acc, bytes))
         ELSE gnts(strs, i + 1, start, acc)

\* the loop appends at null bytes only: without one it yields no string
getNullTerminatedStrings(strs) ==
    IF Len(strs) >= 2 /\ \E i \in 1..Len(strs) : strs[i] = 0
    THEN gnts(strs, 1, 1, <<>>)
    ELSE [strVals |-> <<>>, err |-> FALSE]

\* The option loop shared by ReadWriteRequest.unmarshal and
\* OAckPacket.unmarshal: i steps by two over optVals; err is the error of the
\* last ValidateOptValue call (err0 when there was none); reading optVals[i+1]
\* past the end of the slice panics.
RECURSIVE optLoop(_, _, _, _)
optLoop(optVals, i, options, err) ==
    IF i > Len(optVals) THEN [options |-> options, err |-> err, panic |-> FALSE]
    ELSE LET opt == MarshalOpts(optVals[i])
         IN  IF opt = Unknown THEN optLoop(optVals, i + 2, options, err)
             ELSE IF i + 1 > Len(optVals)
                  THEN [options |-> options, err |-> err, panic |-> TRUE]
             ELSE LET v == ValidateOptValue(opt, optVals[i + 1])
                  IN  optLoop(optVals, i + 2,
                              IF v.err THEN options
                              ELSE (opt :> v.val) @@ options,
                              v.err)

rwUnmarshal(op, b) ==
    LET g == getNullTerminatedStrings(SubSeq(b, 3, Len(b)))
        strVals == g.strVals
    IN  IF g.err THEN Failed
        ELSE IF Len(strVals) >= 2
        THEN LET optVals == SubSeq(strVals, 3, Len(strVals))
                 l == IF Len(optVals) >= 2
                      THEN optLoop(optVals, 1, EmptyOpts, FALSE)
                      ELSE [options |-> EmptyOpts, err |-> FALSE,
                            panic |-> FALSE]
             IN  IF l.panic THEN Panic
                 ELSE IF l.err THEN Failed
                 ELSE Ok(ReadWriteRequest(op, strVals[1], strVals[2], l.options))
        ELSE Ok(ReadWriteRequest(op, <<>>, <<>>, EmptyOpts))

oackUnmarshal(b) ==
    LET g == getNullTerminatedStrings(SubSeq(b, 3, Len(b)))
        optVals == g.strVals
    IN  IF Len(optVals) >= 2
        THEN LET l == optLoop(optVals, 1, EmptyOpts, FALSE)
             IN  IF l.panic THEN Panic ELSE Ok(OAckPacket(l.options))
        ELSE IF g.err THEN Failed
        ELSE Ok(OAckPacket(EmptyOpts))

dataUnmarshal(b) ==
    IF Len(b) < 4 THEN Panic
    ELSE Ok(DataPacket(Uint16(SubSeq(b, 3, 4)), SubSeq(b, 5, Len(b))))

ackUnmarshal(b) ==
    IF Len(b) < 4 THEN Panic
    ELSE Ok(AckPacket(Uint16(SubSeq(b, 3, 4))))

errorUnmarshal(b) ==
    IF Len(b) < 4 THEN Panic
    ELSE LET g == getNullTerminatedStrings(SubSeq(b, 5, Len(b)))
             code == Uint16(SubSeq(b, 3, 4))
             \* strings.Join(strVals, " ")
             join == Concat([i \in 1..Len(g.strVals) |->
                               IF i = 1 THEN g.strVals[i]
                               ELSE <<32>> \o g.strVals[i]])
         IN  IF g.err THEN Failed
             ELSE IF Len(g.strVals) >= 1 THEN Ok(ErrorPacket(code, join))
             ELSE Ok(ErrorPacket(code, <<>>))

\* Marshal: a binary packet into a packet structure (the decoder)
Marshal(b) ==
    IF Len(b) < 2 THEN Panic
    ELSE LET op == Uint16(SubSeq(b, 1, 2))
         IN  CASE op \in {Rrq, Wrq} -> rwUnmarshal(op, b)
               [] op = Data         -> dataUnmarshal(b)
               [] op = Ack          -> ackUnmarshal(b)
               [] op = OAck         -> oackUnmarshal(b)
               [] op = Error        -> errorUnmarshal(b)
               [] OTHER             -> Failed

\* Marshal(buf[:n]): b is the slice buf[:n] and tail the rest of its backing
\* array.  A slice expression of a slice is bounded by the capacity, so
\* b[0:2] and b[2:4] read into tail where b is short and panic only where
\* the array ends; b[2:] and b[4:] end at len(b) and panic when b is shorter
\* than their low index.
MarshalSlice(b, tail) ==
    LET full == b \o tail
    IN  IF Len(full) < 2 THEN Panic
        ELSE LET op == Uint16(SubSeq(full, 1, 2))
             IN  CASE op \in {Rrq, Wrq, OAck} ->
                        IF Len(b) < 2 THEN Panic ELSE Marshal(b)
                   [] op \in {Data, Error} ->
                        IF Len(b) < 4 THEN Panic ELSE Marshal(b)
                   [] op = Ack ->
                        IF Len(full) < 4 THEN Panic
                        ELSE Ok(AckPacket(Uint16(SubSeq(full, 3, 4))))
                   [] OTHER -> Failed

\* the option/value pairs of a map written in the iteration order `order`
optBytes(options, order) ==
    Concat([i \in 1..Len(order) |->
              nullTerminate(UnmarshalOpts(order[i]))
              \o nullTerminate(Itoa(options[order[i]]))])

rwMarshal(p, order) ==
    PutUint16(p.Opcode) \o nullTerminate(p.Filename) \o nullTerminate(p.Mode)
    \o optBytes(p.Options, order)

oackMarshal(p, order) == PutUint16(p.Opcode) \o optBytes(p.Options, order)

dataMarshal(p) == PutUint16(p.Opcode) \o PutUint16(p.BlockNumber) \o p.Data

ackMarshal(p) == PutUint16(p.Opcode) \o PutUint16(p.BlockNumber)

errorMarshal(p) ==
    PutUint16(p.Opcode) \o PutUint16(p.ErrorCode) \o nullTerminate(p.ErrMsg)

\* Unmarshal: a packet structure into its binary format (the encoder); a Go
\* map is ranged over in an unspecified order, given here as `order`
Unmarshal(p, order) ==
    CASE p.Opcode \in {Rrq, Wrq} -> rwMarshal(p, order)
      [] p.Opcode = Data         -> dataMarshal(p)
      [] p.Opcode = Ack          -> ackMarshal(p)
      [] p.Opcode = OAck         -> oackMarshal(p, order)
      [] OTHER                   -> errorMarshal(p)

\* encode(Error, code, msg), the only opcode encode implements
encode(code, msg) == errorMarshal(ErrorPacket(code, msg))

-----------------------------------------------------------------------------
(* The codec as a state machine: an input is either a well-formed packet   *)
(* (encoded, then decoded) or a datagram (decoded); a packet that was      *)
(* encoded is encoded again, and one that was decoded is encoded.          *)

sF    == <<102>>                         \* "f"
sFTxt == <<102, 46, 116, 120, 116>>      \* "f.txt"
sFoo  == <<102, 111, 111>>               \* "foo", not an option name
sBlkCaps == <<66, 108, 107, 83, 105, 122, 101>>   \* "BlkSize"

FileNames == {sF, sFTxt}
Modes     == {sOctet, sMail}

\* the in-range values a well-formed packet carries, both ends of each range
InRange(opt) ==
    CASE opt = Blksize    -> {8, 65464}
      [] opt = Timeout    -> {1, 255}
      [] opt = Tsize      -> {0, 70000}
      [] opt = Windowsize -> {1, 65535}

Options == {Blksize, Timeout, Tsize, Windowsize}

InRangeMaps ==
    UNION {{m \in [D -> UNION {InRange(o) : o \in Options}] :
              \A o \in D : m[o] \in InRange(o)} : D \in SUBSET Options}

BlockNumbers == {0, 1, 255, 256, 65535}
Payloads     == {<<>>, <<0>>, <<104, 0, 255>>}
ErrMsgs      == {<<>>, <<97>>, <<110, 111, 32, 102>>}      \* "", "a", "no f"
ErrorCodes   == NotDefined..RequestDenied

WellFormedPackets ==
    {ReadWriteRequest(op, f, m, o) :
        op \in {Rrq, Wrq}, f \in FileNames, m \in Modes, o \in InRangeMaps}
    \cup {DataPacket(n, d) : n \in BlockNumbers, d \in Payloads}
    \cup {AckPacket(n) : n \in BlockNumbers}
    \cup {ErrorPacket(c, m) : c \in ErrorCodes, m \in ErrMsgs}
    \cup {OAckPacket(o) : o \in InRangeMaps}

\* the strings an option list on the wire is assembled from
OptNames  == {sBlksize, sTimeout, sTsize, sWindowsize, sBlkCaps, sFoo}
OptValues == {Itoa(v) : v \in {0 - 1, 0, 1, 7, 8, 255, 256, 65464, 65465,
                               65535, 65536}} \cup {<<120>>}     \* and "x"

OptStrLists ==
    UNION {{s \in [1..n -> OptNames \cup OptValues] :
              \A i \in 1..n : s[i] \in (IF i % 2 = 1 THEN OptNames
                                        ELSE OptValues)}
           : n \in 0..MaxOptStrs}

NoIn == [op |-> 0, filename |-> <<>>, mode |-> <<>>, strs |-> <<>>]

WireInputs ==
    {[op |-> op, filename |-> sF, mode |-> sOctet, strs |-> s] :
        op \in {Rrq, Wrq}, s \in OptStrLists}
    \cup {[op |-> OAck, filename |-> <<>>, mode |-> <<>>, strs |-> s] :
            s \in OptStrLists}

WireOf(in) ==
    PutUint16(in.op)
    \o (IF in.op = OAck THEN <<>>
        ELSE nullTerminate(in.filename) \o nullTerminate(in.mode))
    \o Concat([i \in 1..Len(in.strs) |-> nullTerminate(in.strs[i])])

\* Data, Ack and Error datagrams as they arrive: whole ones, and ones cut
\* short after the opcode or inside the block number
RawWires ==
    {PutUint16(op) \o rest :
        op \in {Data, Ack},
        rest \in {<<>>, <<0>>, <<0, 1>>, <<1, 0>>, <<0, 1, 104, 0>>}}
    \cup {PutUint16(Error) \o rest :
            rest \in {<<0>>, <<0, 1>>, <<0, 1, 0>>, <<0, 1, 97, 0>>,
                      <<0, 1, 97>>, <<0, 1, 97, 0, 98, 0>>}}

\* request datagrams: with the mode in capitals ("OCTET"), with a mode that
\* is none ("foo"), with the file name only, with empty strings, and with
\* nothing behind the opcode
sOctetCaps == <<79, 67, 84, 69, 84>>

RawRequests ==
    {PutUint16(op) \o rest :
        op \in {Rrq, Wrq},
        rest \in {nullTerminate(sF) \o nullTerminate(sOctetCaps),
                  nullTerminate(sF) \o nullTerminate(sFoo),
                  nullTerminate(sF), <<0, 0>>, <<>>}}

\* what the read buffer holds behind the datagram: nothing (the slice is as
\* long as its array), or bytes of an earlier datagram
Tails == {<<>>, <<7>>, <<0, 7>>}

CodecInit ==
    /\ cPhase = "input"
    /\ cOut = NoResult
    /\ cRe = <<>>
    /\ \/ /\ cSrc = "packet"
          /\ cPkt \in WellFormedPackets
          /\ cIn = NoIn
          /\ cWire = <<>>
          /\ cTail = <<>>
       \/ /\ cSrc = "wire"
          /\ cPkt = NoPacket
          /\ cIn \in WireInputs
          /\ cWire = WireOf(cIn)
          /\ cTail = <<>>
       \/ /\ cSrc = "raw"
          /\ cPkt = NoPacket
          /\ cIn = NoIn
          /\ \/ cWire \in RawWires /\ cTail \in Tails
             \/ cWire \in RawRequests /\ cTail = <<>>

\* Unmarshal(p)
Encode ==
    /\ cPhase = "input"
    /\ cSrc = "packet"
    /\ \E order \in Perms(DOMAIN cPkt.Options) :
          cWire' = Unmarshal(cPkt, order)
    /\ cPhase' = "encoded"
    /\ UNCHANGED <<cSrc, cPkt, cIn, cTail, cOut, cRe>>
    /\ UNCHANGED <<fileVars, connVars, serverVars, procVars>>

\* Marshal(b)
Decode ==
    /\ \/ cPhase = "encoded"
       \/ cPhase = "input" /\ cSrc \in {"wire", "raw"}
    /\ cOut' = MarshalSlice(cWire, cTail)
    /\ cPhase' = "decoded"
    /\ UNCHANGED <<cSrc, cPkt, cIn, cWire, cTail, cRe>>
    /\ UNCHANGED <<fileVars, connVars, serverVars, procVars>>

\* Unmarshal(p) a second time, of the packet that was encoded
EncodeAgain ==
    /\ cPhase = "encoded"
    /\ \E order \in Perms(DOMAIN cPkt.Options) :
          cRe' = Unmarshal(cPkt, order)
    /\ cPhase' = "again"
    /\ UNCHANGED <<cSrc, cPkt, cIn, cWire, cTail, cOut>>
    /\ UNCHANGED <<fileVars, connVars, serverVars, procVars>>

\* Unmarshal(p) of the packet Marshal returned
Reencode ==
    /\ cPhase = "decoded"
    /\ cOut.kind = "ok"
    /\ \E order \in Perms(DOMAIN cOut.pkt.Options) :
          cRe' = Unmarshal(cOut.pkt, order)
    /\ cPhase' = "reencoded"
    /\ UNCHANGED <<cSrc, cPkt, cIn, cWire, cTail, cOut>>
    /\ UNCHANGED <<fileVars, connVars, serverVars, procVars>>

CodecNext == Encode \/ Decode \/ EncodeAgain \/ Reencode

-----------------------------------------------------------------------------
(* FileBuffer: a bufio.Reader and/or bufio.Writer over a backing file, and  *)
(* buf, the retransmission buffer.                                          *)

\* a bufio.Reader: src is what the backing file still holds past its read
\* offset, buf the bytes read ahead (b.buf[b.r:b.w])
NoReader == [src |-> <<>>, buf |-> <<>>]

\* a bufio.Writer: out is what the backing file holds, room the bytes it
\* still takes, buf the bytes not yet flushed, err the sticky write error
NoWriter == [out |-> <<>>, room |-> 0, buf |-> <<>>, err |-> FALSE]

\* fclosed: Close was called on the backing file f.f
NewFileBuffer ==
    [r |-> FALSE, w |-> FALSE, rd |-> NoReader, wr |-> NoWriter,
     f |-> "", fclosed |-> FALSE, buf |-> <<>>]

\* the result of an operation: the object afterwards, the count and error
\* returned, and the bytes placed in (or taken from) the caller's slice
Res(f, n, err, data) == [f |-> f, n |-> n, err |-> err, data |-> data]

\* bufio.Reader.Read(p) with len(p) = n; the backing file's Read returns
\* what is left, up to the length asked for, and (0, io.EOF) at its end
bufioRead(rd, n) ==
    IF n = 0 THEN [rd |-> rd, n |-> 0, err |-> "nil", data |-> <<>>]
    ELSE IF rd.buf = <<>>
    THEN IF n >= BufioSize
         THEN \* large read, empty buffer: read directly into p
              LET k == Min(n, Len(rd.src))
              IN  [rd |-> [rd EXCEPT !.src = SubSeq(@, k + 1, Len(@))],
                   n |-> k, err |-> IF k = 0 THEN "EOF" ELSE "nil",
                   data |-> SubSeq(rd.src, 1, k)]
         ELSE \* one read into the internal buffer, then copy
              LET k == Min(BufioSize, Len(rd.src))
                  m == Min(n, k)
              IN  IF k = 0
                  THEN [rd |-> rd, n |-> 0, err |-> "EOF", data |-> <<>>]
                  ELSE [rd |-> [src |-> SubSeq(rd.src, k + 1, Len(rd.src)),
                                buf |-> SubSeq(rd.src, m + 1, k)],
                        n |-> m, err |-> "nil", data |-> SubSeq(rd.src, 1, m)]
    ELSE LET m == Min(n, Len(rd.buf))
         IN  [rd |-> [rd EXCEPT !.buf = SubSeq(@, m + 1, Len(@))],
              n |-> m, err |-> "nil", data |-> SubSeq(rd.buf, 1, m)]

\* bufio.Writer.Flush
bufioFlush(wr) ==
    IF wr.err THEN wr
    ELSE IF wr.buf = <<>> THEN wr
    ELSE LET k == Min(Len(wr.buf), wr.room)
         IN  [out  |-> wr.out \o SubSeq(wr.buf, 1, k),
              room |-> wr.room - k,
              buf  |-> SubSeq(wr.buf, k + 1, Len(wr.buf)),
              err  |-> k < Len(wr.buf)]

\* bufio.Writer.Write(p): nn counts the bytes taken from p so far
RECURSIVE bufioWrite(_, _, _)
bufioWrite(wr, p, nn) ==
    LET avail == BufioSize - Len(wr.buf)
    IN  IF Len(p) > avail /\ ~wr.err
        THEN IF wr.buf = <<>>
             THEN \* large write, empty buffer: write directly from p
                  LET k == Min(Len(p), wr.room)
                  IN  bufioWrite([wr EXCEPT !.out = @ \o SubSeq(p, 1, k),
                                            !.room = @ - k,
                                            !.err = k < Len(p)],
                                 SubSeq(p, k + 1, Len(p)), nn + k)
             ELSE bufioWrite(bufioFlush([wr EXCEPT
                                           !.buf = @ \o SubSeq(p, 1, avail)]),
                             SubSeq(p, avail + 1, Len(p)), nn + avail)
        ELSE IF wr.err
             THEN [wr |-> wr, n |-> nn, err |-> "ENOSPC"]
             ELSE [wr |-> [wr EXCEPT !.buf = @ \o p], n |-> nn + Len(p),
                   err |-> "nil"]

\* FileBuffer.WithRequest(op, file)
fbWithRequest(f, op, file) ==
    CASE op = Rrq -> [f EXCEPT !.f = file.name, !.fclosed = FALSE,
                               !.r = TRUE,
                               !.rd = [src |-> file.content, buf |-> <<>>]]
      [] op = Wrq -> [f EXCEPT !.f = file.name, !.fclosed = FALSE,
                               !.w = TRUE,
                               !.wr = [out |-> file.content,
                                       room |-> file.room,
                                       buf |-> <<>>, err |-> FALSE]]
      [] OTHER    -> [f EXCEPT !.f = file.name, !.fclosed = FALSE]

\* Reset that leaves the retransmission buffer as it is
fbResetNothing(f) == f

\* FileBuffer.Reset
fbReset(f) == [f EXCEPT !.buf = <<>>]

\* Read that also keeps what it read in the retransmission buffer
fbReadKeeping(f, n) ==
    IF ~f.r THEN Res(f, 0, "panic", <<>>)
    ELSE LET x == bufioRead(f.rd, n)
         IN  Res([f EXCEPT !.rd = x.rd, !.buf = x.data], x.n, x.err, x.data)

\* FileBuffer.Read(b) with len(b) = n: f.r.Read(b); a nil f.r panics
fbRead(f, n) ==
    IF ~f.r THEN Res(f, 0, "panic", <<>>)
    ELSE LET x == bufioRead(f.rd, n)
         IN  Res([f EXCEPT !.rd = x.rd], x.n, x.err, x.data)

\* FileBuffer.Write(b): f.w.Write(b); a nil f.w panics
fbWrite(f, b) ==
    IF ~f.w THEN Res(f, 0, "panic", b)
    ELSE LET x == bufioWrite(f.wr, b, 0)
         IN  Res([f EXCEPT !.wr = x.wr], x.n, x.err, b)

\* ReadNext that resets the retransmission buffer whatever it read
fbReadNextAlwaysReset(f, n) ==
    LET x == fbRead(f, n)
    IN  IF x.err = "panic" THEN x
        ELSE Res([x.f EXCEPT !.buf = x.data], x.n, x.err, x.data)

\* ReadNext that appends to the retransmission buffer without a reset
fbReadNextNoReset(f, n) ==
    LET x == fbRead(f, n)
    IN  IF x.n > 0
        THEN Res([x.f EXCEPT !.buf = @ \o x.data], x.n, x.err, x.data)
        ELSE x

\* FileBuffer.ReadNext(b) with len(b) = n
fbReadNext(f, n) ==
    LET x == fbRead(f, n)
    IN  IF x.n > 0
        THEN Res([x.f EXCEPT !.buf = x.data], x.n, x.err, x.data)
        ELSE x

\* FileBuffer.WriteNext(b): buf is written to without a Reset
fbWriteNext(f, b) ==
    LET x == fbWrite(f, b)
    IN  IF x.n > 0
        THEN Res([x.f EXCEPT !.buf = @ \o SubSeq(b, 1, x.n)], x.n, x.err, b)
        ELSE x

\* FileBuffer.BufferLen
fbBufferLen(f) == Len(f.buf)

\* FileBuffer.ReadBuffer(b) with len(b) = n: copy(b, f.buf.Bytes())
fbReadBuffer(f, n) ==
    LET k == Min(n, Len(f.buf))
    IN  Res(f, k, "nil", SubSeq(f.buf, 1, k))

\* Close that empties the retransmission buffer and leaves the pending
\* writes where they are
fbCloseNoFlush(f) == Res([f EXCEPT !.buf = <<>>], 0, "nil", <<>>)

\* FileBuffer.Close
fbClose(f) ==
    IF f.w
    THEN LET wr == bufioFlush(f.wr)
         IN  IF wr.err THEN Res([f EXCEPT !.wr = wr], 0, "ENOSPC", <<>>)
             ELSE Res([f EXCEPT !.wr = wr, !.buf = <<>>], 0, "nil", <<>>)
    ELSE Res([f EXCEPT !.buf = <<>>], 0, "nil", <<>>)

-----------------------------------------------------------------------------
(* The file view as a state machine *)

\* the files a view is bound to: their bytes are all different, so that a
\* byte found in the wrong place shows
ReadFiles  == {[name |-> "r", content |-> [i \in 1..MaxFile |-> i], room |-> 0]}
WriteFiles == {[name |-> "w", content |-> <<>>, room |-> DiskRoom]}

\* largest len(b) handed to Read and ReadNext: below, at and above the size
\* of the bufio buffer
MaxBlock == BufioSize + 1

\* the blocks handed to Write and WriteNext
WriteBlocks == {<<>>, <<11>>, <<21, 22, 23>>}

\* all: the bytes Write and WriteNext took (b[:n]) since the writer was
\* set up, in call order, behind what its file held then
NoOp == [op |-> "none", len |-> 0, n |-> 0, err |-> "nil", data |-> <<>>,
         prev |-> <<>>, rem |-> 0, binds |-> 0, all |-> <<>>]

FileInit == fb = NewFileBuffer /\ fLast = NoOp

\* what the operation found: the retransmission buffer and the bytes left
\* to read before it ran
Record(op, len, x) ==
    [op |-> op, len |-> len, n |-> x.n, err |-> x.err, data |-> x.data,
     prev |-> fb.buf, rem |-> Len(fb.rd.src) + Len(fb.rd.buf),
     binds |-> fLast.binds, all |-> fLast.all]

\* a panic ends the program
Running == fLast.err # "panic"

DoWithRequest ==
    /\ Running
    /\ fLast.binds < MaxWithRequest
    /\ \E op \in {Rrq, Wrq} :
         \E file \in (IF op = Rrq THEN ReadFiles ELSE WriteFiles) :
            /\ fb' = fbWithRequest(fb, op, file)
            /\ fLast' = [Record("WithRequest", 0, Res(fb, 0, "nil", <<>>))
                           EXCEPT !.binds = @ + 1,
                                  !.all = IF op = Wrq THEN file.content
                                          ELSE @]
    /\ UNCHANGED <<codecVars, connVars, serverVars, procVars>>

DoRead ==
    /\ Running
    /\ \E n \in 0..MaxBlock :
         LET x == fbRead(fb, n)
         IN  fb' = x.f /\ fLast' = Record("Read", n, x)
    /\ UNCHANGED <<codecVars, connVars, serverVars, procVars>>

DoWrite ==
    /\ Running
    /\ \E b \in WriteBlocks :
         LET x == fbWrite(fb, b)
         IN  /\ fb' = x.f
             /\ fLast' = [Record("Write", Len(b), x)
                            EXCEPT !.all = @ \o SubSeq(b, 1, x.n)]
    /\ UNCHANGED <<codecVars, connVars, serverVars, procVars>>

DoReadNext ==
    /\ Running
    /\ \E n \in 0..MaxBlock :
         LET x == fbReadNext(fb, n)
         IN  fb' = x.f /\ fLast' = Record("ReadNext", n, x)
    /\ UNCHANGED <<codecVars, connVars, serverVars, procVars>>

DoWriteNext ==
    /\ Running
    /\ \E b \in WriteBlocks :
         LET x == fbWriteNext(fb, b)
         IN  /\ fb' = x.f
             /\ fLast' = [Record("WriteNext", Len(b), x)
                            EXCEPT !.all = @ \o SubSeq(b, 1, x.n)]
    /\ UNCHANGED <<codecVars, connVars, serverVars, procVars>>

DoReset ==
    /\ Running
    /\ fb' = fbReset(fb)
    /\ fLast' = Record("Reset", 0, Res(fb, 0, "nil", <<>>))
    /\ UNCHANGED <<codecVars, connVars, serverVars, procVars>>

DoClose ==
    /\ Running
    /\ LET x == fbClose(fb)
       IN  fb' = x.f /\ fLast' = Record("Close", 0, x)
    /\ UNCHANGED <<codecVars, connVars, serverVars, procVars>>

FileNext ==
    \/ DoWithRequest \/ DoRead \/ DoWrite \/ DoReadNext \/ DoWriteNext
    \/ DoReset \/ DoClose

-----------------------------------------------------------------------------
(* Conn (dit.go): the listener, the endpoints AcceptRange returns and the   *)
(* client.  An address is an IP and a port.                                 *)

Addr(ip, port) == [ip |-> ip, port |-> port]
NoAddr == Addr(0, 0)

\* the hosts that send datagrams: two ports on one host and the first of
\* these ports on a second host
Addrs == {Addr(1, 1001), Addr(1, 1002), Addr(2, 1001)}

\* the hosts that send requests to the listener
RequestAddrs == {Addr(1, 1001)}

\* the well-known address of a server the client dials
ServerAddr == Addr(9, 69)

\* a *net.UDPConn: remote is the address it was dialed to (NoAddr for a
\* socket made by ListenUDP); a nil pointer is NilSock
Sock(local, remote) == [nil |-> FALSE, open |-> TRUE, local |-> local,
                        remote |-> remote]
NilSock == [nil |-> TRUE, open |-> FALSE, local |-> 0, remote |-> NoAddr]

\* the kernel queues a datagram on a socket that is open and, when the
\* socket is connected to a remote address, comes from that address
sockDelivers(c, src) ==
    /\ ~c.nil /\ c.open
    /\ c.remote # NoAddr => src = c.remote

\* the error of an I/O call on a socket that cannot be used
sockErr(c) == IF c.nil THEN "EINVAL" ELSE IF ~c.open THEN "closed" ELSE "nil"

\* the size of the buffer AcceptRange reads a request into
AcceptBufLen == 256

\* the ephemeral port the kernel gives the k-th transfer socket
EphemeralPort(k) == 40000 + k

\* connectWithRange(lo, hi, remote): with (0, 0) one DialUDP on a port the
\* kernel chooses, which succeeds (dialOk) or fails; with a range, the loop
\* `for i := 0; i > 10; i++` ends before its first pass, which leaves conn
\* nil and err nil
connectWithRange(lo, hi, remote, dialOk, port) ==
    IF lo = 0 /\ hi = 0
    THEN IF dialOk THEN [conn |-> Sock(port, remote), err |-> FALSE]
         ELSE [conn |-> NilSock, err |-> TRUE]
    ELSE [conn |-> NilSock, err |-> FALSE]

\* the Conn AcceptRange returns; peer is the sender of the request, kept
\* for the properties (the Go struct keeps its port only, in destTID)
Endpoint(c, raddr, req) ==
    [c |-> c, destTID |-> raddr.port, connected |-> TRUE, req |-> req,
     peer |-> raddr]

\* an error packet written to addr
ErrTo(code, addr) == [to |-> addr, code |-> code]

\* "f" octet, an RRQ and a WRQ with a block size
wireRrq == rwMarshal(ReadWriteRequest(Rrq, sF, sOctet, EmptyOpts), <<>>)
wireWrq == rwMarshal(ReadWriteRequest(Wrq, sF, sOctet, Blksize :> 8),
                     <<Blksize>>)
\* an Ack, a request whose file name is not UTF-8, a one byte datagram
wireAck    == ackMarshal(AckPacket(1))
wireBadRrq == <<0, 1, 255, 0>> \o nullTerminate(sOctet)
wireShort  == <<0>>
\* a request with an option and the name of a second one without a value
wireOddRrq == wireWrq \o nullTerminate(sTsize)

\* an RRQ whose file name alone is as long as the buffer of AcceptRange
wireLong == PutUint16(Rrq) \o [i \in 1..AcceptBufLen |-> 102] \o <<0>>
            \o nullTerminate(sOctet)

ListenerWires == {wireRrq, wireWrq, wireAck, wireBadRrq, wireShort,
                  wireOddRrq, wireLong}

\* ReadFromUDP(buf): the bytes of the datagram that fit into buf; the rest
\* of the datagram is discarded and n is len(buf)
readInto(wire) == SubSeq(wire, 1, Min(Len(wire), AcceptBufLen))

\* the file names the requests to the server carry: "f", "g", "p", "../f"
\* and "/f"
ServerNames == {<<102>>, <<103>>, <<112>>, <<46, 46, 47, 102>>, <<47, 102>>}

\* the request datagram for a file of the server
ServerWire(op, name) ==
    rwMarshal(ReadWriteRequest(op, name, sOctet, EmptyOpts), <<>>)

\* Marshal of the datagrams the listener is sent, computed once
Decoded ==
    [w \in {readInto(d) : d \in ListenerWires}
           \cup {ServerWire(op, name) : op \in {Rrq, Wrq}, name \in ServerNames}
       |-> Marshal(w)]

\* the first two bytes of buf after a datagram was read into it: a datagram
\* shorter than that leaves the bytes of the datagram before it (zero in a
\* fresh buffer) in place, and opcode(buf[:n]) reads them, because b[0:2] is
\* within the capacity of buf
header(stale, wire) ==
    IF Len(wire) >= 2 THEN SubSeq(wire, 1, 2)
    ELSE wire \o SubSeq(stale, Len(wire) + 1, 2)

\* every opcode passes for a request
isRequestAny(op) == TRUE

\* op != Rrq && op != Wrq, negated
isRequest(op) == op \in {Rrq, Wrq}

\* one pass of the loop of AcceptRange over the datagram (raddr, wire), with
\* stale the first two bytes buf held before: the outcome, the endpoint
\* returned if any, whether the error returned is not nil, the packets
\* written and the first two bytes of buf
AcceptRange(lo, hi, raddr, wire, dialOk, port, stale) ==
    LET buf == readInto(wire)
        pass(hdr, dec, cw) ==
            IF ~isRequest(Uint16(hdr))
            THEN [res |-> "continue", ep |-> <<>>, buf |-> hdr,
                  err |-> FALSE,
                  sent |-> <<ErrTo(IllegalOperation, raddr)>>]
            ELSE IF dec.kind = "panic"
            THEN [res |-> "panic", ep |-> <<>>, buf |-> hdr, err |-> FALSE,
                  sent |-> <<>>]
            ELSE IF dec.kind = "err"
            THEN [res |-> "continue", ep |-> <<>>, buf |-> hdr,
                  err |-> FALSE,
                  sent |-> <<ErrTo(NotDefined, raddr)>>]
            ELSE IF dec.pkt.Opcode \notin {Rrq, Wrq}
            THEN \* req.(*ReadWriteRequest) on another packet
                 [res |-> "panic", ep |-> <<>>, buf |-> hdr, err |-> FALSE,
                  sent |-> <<>>]
            ELSE IF cw.err
            THEN \* return nil, err where err is the result of writeErrTo,
                 \* which is nil: the packet was written
                 [res |-> "nil", ep |-> <<>>, buf |-> hdr, err |-> FALSE,
                  sent |-> <<ErrTo(NotDefined, raddr)>>]
            ELSE \* return &Conn{...}, nil
                 [res |-> "conn",
                  ep |-> <<Endpoint(cw.conn, raddr, dec.pkt)>>,
                  buf |-> hdr, err |-> FALSE, sent |-> <<>>]
    IN  pass(header(stale, buf), Decoded[buf],
             connectWithRange(lo, hi, raddr, dialOk, port))

\* sync.Mutex.Lock that never waits
muFreeAlways(mu) == TRUE

\* sync.Mutex.Lock returns when the mutex is not held
muFree(mu) == ~mu

\* Conn.Read (dit.go of the server library) on an endpoint for a datagram
\* from src that the socket delivered: only the port is compared
epRead(e, src) ==
    IF sockErr(e.c) # "nil" THEN sockErr(e.c)
    ELSE IF e.connected /\ src.port # e.destTID THEN "ErrUnexpectedTID"
    ELSE "ok"

\* Conn.Close
epClose(e) == [e EXCEPT !.c.open = FALSE]

\* the client Conn after Dial: a ListenUDP socket, destTID the server
Dial == [c |-> Sock(30000, NoAddr), destTID |-> ServerAddr,
         connected |-> FALSE]

\* Conn.connect: the request is written to destTID and the sender of the
\* first response becomes destTID; after a timeout (src = NoAddr) the zero
\* address does
connect(c, src) == [c EXCEPT !.connected = TRUE, !.destTID = src]

\* Conn.Read on the client that takes every sender as its new peer
cliReadAdopting(c, src) ==
    IF sockErr(c.c) # "nil" THEN [c |-> c, res |-> sockErr(c.c)]
    ELSE IF c.connected /\ src # c.destTID
         THEN [c |-> [c EXCEPT !.destTID = src], res |-> "ErrUnexpectedTID"]
    ELSE [c |-> c, res |-> "ok"]

\* Conn.Read on the client (src/dit.go): the whole address is compared
cliRead(c, src) ==
    IF sockErr(c.c) # "nil" THEN [c |-> c, res |-> sockErr(c.c)]
    ELSE IF c.connected /\ src # c.destTID
         THEN [c |-> c, res |-> "ErrUnexpectedTID"]
    ELSE [c |-> c, res |-> "ok"]

-----------------------------------------------------------------------------
(* Conn as a state machine *)

Threads == 1..MaxThreads

\* a thread outside Accept: buf is the first two bytes of the buffer of its
\* call, got the endpoints its calls returned
IdleThread == [pc |-> "idle", buf |-> <<0, 0>>, got |-> <<>>]

\* the arguments of AcceptRange: (0, 0), which Accept passes, or 5000, 5001
PortRanges == {<<0, 0>>, <<5000, 5001>>}

NoSockOp == [op |-> "none", ep |-> 0, src |-> NoAddr, res |-> "nil",
             before |-> <<>>]

ConnInit ==
    /\ lst \in {[c |-> Sock(69, NoAddr), connected |-> FALSE, range |-> r,
                 state |-> "running", mu |-> FALSE,
                 thr |-> [t \in Threads |-> IdleThread]] : r \in PortRanges}
    /\ eps = <<>>
    /\ cli = Dial
    /\ net = <<>>
    /\ nLast = NoSockOp

Alive == lst.state = "running"

\* a thread calls AcceptRange on the listener and takes the mutex; the
\* buffer of the call is fresh
AcceptLock ==
    /\ Alive
    /\ \E t \in Threads :
         /\ lst.thr[t].pc = "idle"
         /\ ~lst.connected
         /\ muFree(lst.mu)
         /\ lst' = [lst EXCEPT !.mu = TRUE,
                               !.thr[t].pc = "polling",
                               !.thr[t].buf = <<0, 0>>]
         /\ nLast' = [op |-> "Lock", ep |-> t, src |-> NoAddr, res |-> "nil",
                      before |-> <<>>]
    /\ net' = <<>>
    /\ UNCHANGED <<eps, cli>>
    /\ UNCHANGED <<codecVars, fileVars, serverVars, procVars>>

\* the thread in the loop of AcceptRange reads one datagram; when the call
\* returns, the deferred Unlock runs
Accept ==
    /\ Alive
    /\ lst.c.open
    /\ Len(eps) < MaxEndpoints
    /\ \E t \in Threads, raddr \in RequestAddrs, wire \in ListenerWires,
          dialOk \in BOOLEAN :
         \E a \in {AcceptRange(lst.range[1], lst.range[2], raddr, wire,
                                dialOk, EphemeralPort(Len(eps) + 1),
                                lst.thr[t].buf)} :
         LET returns == a.res \in {"conn", "nil"}
         IN  /\ lst.thr[t].pc = "polling"
             /\ eps' = eps \o a.ep
             /\ net' = a.sent
             /\ lst' = [lst EXCEPT
                   !.state = IF a.res = "panic" THEN "panicked" ELSE @,
                   !.mu = IF returns THEN FALSE ELSE @,
                   !.thr[t] = [pc  |-> IF returns THEN "idle" ELSE "polling",
                               buf |-> a.buf,
                               got |-> IF a.res = "conn"
                                       THEN Append(@.got, Len(eps'))
                                       ELSE @.got]]
             /\ nLast' = [op |-> "Accept", ep |-> Len(eps'), src |-> raddr,
                          res |-> a.res,
                          before |-> [wire |-> wire, n |-> Len(eps), t |-> t,
                                      hdr |-> a.buf, err |-> a.err]]
    /\ UNCHANGED cli
    /\ UNCHANGED <<codecVars, fileVars, serverVars, procVars>>

\* AcceptRange called on an endpoint: ErrClientAccept
EpAccept ==
    /\ Alive
    /\ \E i \in 1..Len(eps) :
         /\ eps[i].connected
         /\ nLast' = [op |-> "EpAccept", ep |-> i, src |-> NoAddr,
                      res |-> "ErrClientAccept", before |-> eps[i]]
    /\ net' = <<>>
    /\ UNCHANGED <<lst, eps, cli>>
    /\ UNCHANGED <<codecVars, fileVars, serverVars, procVars>>

\* a datagram from src is sent to the port of endpoint i, whose owner is in
\* Read: the kernel drops it or queues it, and then Read returns
EpRead ==
    /\ Alive
    /\ \E i \in 1..Len(eps), src \in Addrs :
         nLast' = [op |-> "Read", ep |-> i, src |-> src,
                   res |-> IF sockErr(eps[i].c) = "nil"
                              /\ ~sockDelivers(eps[i].c, src)
                           THEN "dropped"
                           ELSE epRead(eps[i], src),
                   before |-> eps[i]]
    /\ net' = <<>>
    /\ UNCHANGED <<lst, eps, cli>>
    /\ UNCHANGED <<codecVars, fileVars, serverVars, procVars>>

\* Conn.Write and Conn.WriteErr on an endpoint: to the dialed address
EpWrite ==
    /\ Alive
    /\ \E i \in 1..Len(eps), code \in {0 - 1, UnknownTID} :
         /\ net' = IF sockErr(eps[i].c) = "nil"
                   THEN <<ErrTo(code, eps[i].c.remote)>> ELSE <<>>
         /\ nLast' = [op |-> "Write", ep |-> i, src |-> NoAddr,
                      res |-> sockErr(eps[i].c), before |-> eps[i]]
    /\ UNCHANGED <<lst, eps, cli>>
    /\ UNCHANGED <<codecVars, fileVars, serverVars, procVars>>

\* Conn.Close on an endpoint
EpClose ==
    /\ Alive
    /\ \E i \in 1..Len(eps) :
         /\ eps' = [eps EXCEPT ![i] = IF @.c.nil THEN @ ELSE epClose(@)]
         /\ nLast' = [op |-> "Close", ep |-> i, src |-> NoAddr,
                      res |-> sockErr(eps[i].c), before |-> eps[i]]
    /\ net' = <<>>
    /\ UNCHANGED <<lst, cli>>
    /\ UNCHANGED <<codecVars, fileVars, serverVars, procVars>>

\* SnoopWithPacket on a client that is not connected: connect; the first
\* response comes from src, or none comes before the deadline
CliConnect ==
    /\ Alive
    /\ ~cli.connected
    /\ \E src \in Addrs \cup {NoAddr} :
         /\ cli' = connect(cli, src)
         /\ nLast' = [op |-> "connect", ep |-> 0, src |-> src,
                      res |-> IF src = NoAddr THEN "timeout" ELSE "ok",
                      before |-> cli]
    /\ net' = <<>>
    /\ UNCHANGED <<lst, eps>>
    /\ UNCHANGED <<codecVars, fileVars, serverVars, procVars>>

\* SnoopWithPacket on a connected client: Read; the socket is not dialed, so
\* a datagram from any address is queued
CliRead ==
    /\ Alive
    /\ cli.connected
    /\ \E src \in Addrs :
         LET x == cliRead(cli, src)
         IN  /\ cli' = x.c
             /\ nLast' = [op |-> "CliRead", ep |-> 0, src |-> src,
                          res |-> x.res, before |-> cli]
    /\ net' = <<>>
    /\ UNCHANGED <<lst, eps>>
    /\ UNCHANGED <<codecVars, fileVars, serverVars, procVars>>

\* Conn.Close on the client
CliClose ==
    /\ Alive
    /\ cli.c.open
    /\ cli' = [cli EXCEPT !.c.open = FALSE]
    /\ nLast' = [op |-> "CliClose", ep |-> 0, src |-> NoAddr, res |-> "nil",
                 before |-> cli]
    /\ net' = <<>>
    /\ UNCHANGED <<lst, eps>>
    /\ UNCHANGED <<codecVars, fileVars, serverVars, procVars>>

ConnNext ==
    \/ AcceptLock \/ Accept \/ EpAccept \/ EpRead \/ EpWrite \/ EpClose
    \/ CliConnect \/ CliRead \/ CliClose

-----------------------------------------------------------------------------
(* The server (server/server.go): paths, the files on disk, srvconn and    *)
(* the pool                                                                 *)

sSlash  == 47                             \* '/'
sDot    == <<46>>                         \* "."
sDotDot == <<46, 46>>                     \* ".."
sT      == <<116>>                        \* "t", the base directory
sG      == <<103>>                        \* "g"
sP      == <<112>>                        \* "p"

\* the elements of a path: the bytes between separators, empty ones dropped
RECURSIVE split(_, _, _)
split(bytes, cur, acc) ==
    IF bytes = <<>> THEN IF cur = <<>> THEN acc ELSE Append(acc, cur)
    ELSE IF bytes[1] = sSlash
         THEN split(Tail(bytes), <<>>, IF cur = <<>> THEN acc
                                       ELSE Append(acc, cur))
         ELSE split(Tail(bytes), Append(cur, bytes[1]), acc)

\* filepath.Clean on the elements of a relative path: "." is dropped and
\* ".." removes the element before it, or stays when there is none
RECURSIVE Clean(_, _)
Clean(elems, out) ==
    IF elems = <<>> THEN out
    ELSE IF elems[1] = sDot THEN Clean(Tail(elems), out)
    ELSE IF elems[1] = sDotDot /\ out # <<>> /\ out[Len(out)] # sDotDot
         THEN Clean(Tail(elems), SubSeq(out, 1, Len(out) - 1))
    ELSE Clean(Tail(elems), Append(out, elems[1]))

\* filepath.Join(dir, name): the elements of both, cleaned
Join(dir, name) == Clean(dir \o split(name, <<>>, <<>>), <<>>)

\* filepath.Base
Base(path) == IF path = <<>> THEN sDot ELSE path[Len(path)]

\* s.dir (opts.Secure)
Dir == <<sT>>

\* the path lies below dir
Inside(path, dir) ==
    /\ Len(path) > Len(dir)
    /\ SubSeq(path, 1, Len(dir)) = dir

\* a file on disk: missing, a regular file, or a file the server's user has
\* no permission to open; size is its length
DiskFile(kind, size) == [kind |-> kind, size |-> size]

\* t/f exists, t/g does not, t/p may not be opened, and f exists outside
\* the base directory
DiskInit ==
    (<<sT, sF>> :> DiskFile("file", 1)) @@ (<<sT, sG>> :> DiskFile("missing", 0))
    @@ (<<sT, sP>> :> DiskFile("noperm", 1)) @@ (<<sF>> :> DiskFile("file", 1))

\* os.OpenFile(filename, flags, fs.ModePerm) with the flags newconn and init
\* compute: O_RDONLY for Rrq; O_WRONLY|O_TRUNC for Wrq, with O_CREATE when
\* cfg.Create is set.  ioErr stands for a failure of the system (EMFILE, EIO)
OpenFile(d, path, op, create, ioErr) ==
    IF ioErr THEN [err |-> "other", disk |-> d, created |-> FALSE]
    ELSE CASE d[path].kind = "missing" ->
                IF op = Wrq /\ create
                THEN [err |-> "nil", created |-> TRUE,
                      disk |-> [d EXCEPT ![path] = DiskFile("file", 0)]]
                ELSE [err |-> "ErrNotExist", disk |-> d, created |-> FALSE]
           [] d[path].kind = "noperm" ->
                [err |-> "ErrPermission", disk |-> d, created |-> FALSE]
           [] OTHER ->
                [err |-> "nil", created |-> FALSE,
                 disk |-> IF op = Wrq
                          THEN [d EXCEPT ![path] = DiskFile("file", 0)]
                          ELSE d]

\* os.Stat(filename): the permission bits of the file itself do not matter
Stat(d, path, ioErr) ==
    IF ioErr THEN "other"
    ELSE IF d[path].kind = "missing" THEN "ErrNotExist" ELSE "nil"

\* the error code newconn answers a failed open with
openErrCode(err, create) ==
    CASE err = "ErrExist" -> FileAlreadyExists
      [] err = "ErrNotExist" /\ ~create -> FileNotFound
      [] err = "ErrPermission" -> AccessViolation
      [] OTHER -> NotDefined

\* the error code srvconn.init answers a failed stat with
statErrCode(err, create) ==
    CASE err = "ErrNotExist" /\ ~create -> FileNotFound
      [] err = "ErrPermission" -> AccessViolation
      [] OTHER -> NotDefined

\* an *os.File: the name it was opened with, whether it is open, its offset
OsFile(path) == [path |-> path, open |-> TRUE, off |-> 0]

\* the handle of the k-th file the server opens; "" is the nil handle
FdName(k) == CASE k = 1 -> "fd1" [] k = 2 -> "fd2" [] k = 3 -> "fd3"
               [] k = 4 -> "fd4" [] OTHER -> "fd5"
FdIndex(h) == CHOOSE k \in 1..5 : FdName(k) = h

\* FileBuffer.Is(name), with fds the files the server has opened
fbIs(f, fds, name) ==
    IF f.f = "" THEN FALSE
    ELSE Base(fds[FdIndex(f.f)].path) = Base(name)

\* newsrvconn: Conn is the number of the endpoint (0 for nil), f the handle
newsrvconn == [Conn |-> 0, f |-> "", buf |-> NewFileBuffer]

\* the file a FileBuffer is bound to by WithRequest(op, f)
BoundFile(h, d, path) ==
    [name |-> h, content |-> [i \in 1..d[path].size |-> i], room |-> DiskRoom]

\* putconn that leaves the socket open
putconnNoClose(sc, fds, ends) ==
    [sc  |-> [sc EXCEPT !.buf = fbReset(@)],
     fds |-> IF sc.f = "" THEN fds
             ELSE [fds EXCEPT ![FdIndex(sc.f)].off = 0],
     eps |-> ends]

\* server.putconn up to pool.Put: Reset, Seek(0, 0), Conn.Close
putconn(sc, fds, ends) ==
    [sc  |-> [sc EXCEPT !.buf = fbReset(@)],
     fds |-> IF sc.f = "" THEN fds
             ELSE [fds EXCEPT ![FdIndex(sc.f)].off = 0],
     eps |-> [ends EXCEPT ![sc.Conn] = IF @.c.nil THEN @ ELSE epClose(@)]]

\* a task is started for every request, set up or not
spawnsAlways(err) == TRUE

\* server.start: `if err != nil { continue }` before `go sconn.start(cc)`
spawns(err) == err = "nil"

\* server.newconn after pool.Get returned sc and sconn.Conn = conn was set,
\* up to the call of putconn: the srvconn, the error returned, the error
\* code written to the client (none: -1), the disk and the open files
newconn(sc, req, d, fds, create, ioErr) ==
    LET filename == Join(Dir, req.Filename)
        o == OpenFile(d, filename, req.Opcode, create, ioErr)
        h == FdName(Len(fds) + 1)
    IN  IF fbIs(sc.buf, fds, filename)
        THEN [sc |-> sc, err |-> "nil", code |-> 0 - 1, disk |-> d,
              fds |-> fds, opened |-> <<>>, created |-> FALSE,
              reused |-> TRUE]
        ELSE IF o.err # "nil"
        THEN [sc |-> sc, err |-> o.err, code |-> openErrCode(o.err, create),
              disk |-> d, fds |-> fds, opened |-> <<>>, created |-> FALSE,
              reused |-> FALSE]
        ELSE [sc |-> [sc EXCEPT !.f = h,
                        !.buf = fbWithRequest(@, req.Opcode,
                                              BoundFile(h, o.disk, filename))],
              err |-> "nil", code |-> 0 - 1, disk |-> o.disk,
              fds |-> Append(fds, OsFile(filename)),
              opened |-> <<filename>>, created |-> o.created,
              reused |-> FALSE]

\* srvconn.init on a srvconn made by newsrvconn(dir, log, cfg): Stat first,
\* then OpenFile
init(sc, req, d, fds, create, ioErr) ==
    LET filename == Join(Dir, req.Filename)
        st == Stat(d, filename, ioErr)
        o == OpenFile(d, filename, req.Opcode, create, FALSE)
        h == FdName(Len(fds) + 1)
    IN  IF fbIs(sc.buf, fds, filename)
        THEN [sc |-> sc, err |-> "nil", code |-> 0 - 1, disk |-> d,
              fds |-> fds, opened |-> <<>>, created |-> FALSE,
              reused |-> TRUE]
        ELSE IF st # "nil"
        THEN [sc |-> sc, err |-> st, code |-> statErrCode(st, create),
              disk |-> d, fds |-> fds, opened |-> <<>>, created |-> FALSE,
              reused |-> FALSE]
        ELSE IF o.err # "nil"
        THEN [sc |-> sc, err |-> o.err, code |-> NotDefined,
              disk |-> d, fds |-> fds, opened |-> <<>>, created |-> FALSE,
              reused |-> FALSE]
        ELSE [sc |-> [sc EXCEPT !.f = h,
                        !.buf = fbWithRequest(@, req.Opcode,
                                              BoundFile(h, o.disk, filename))],
              err |-> "nil", code |-> 0 - 1, disk |-> o.disk,
              fds |-> Append(fds, OsFile(filename)),
              opened |-> <<filename>>, created |-> o.created,
              reused |-> FALSE]

-----------------------------------------------------------------------------
(* The server as a state machine *)

\* Accept of the server, AcceptRange(0, 0), for the k-th request
Accepted(raddr, op, name, dialOk, k) ==
    AcceptRange(0, 0, raddr, ServerWire(op, name), dialOk, EphemeralPort(k),
                <<0, 0>>)

NoSetup == [op |-> "none", sc |-> 0, req |-> NoPacket, raddr |-> NoAddr,
            err |-> "nil", code |-> 0 - 1, opened |-> <<>>,
            created |-> FALSE, reused |-> FALSE, put |-> FALSE,
            before |-> newsrvconn, was |-> "none"]

\* the listener of the server: udpListen, then Accept with range (0, 0)
ServerListener ==
    [c |-> Sock(69, NoAddr), connected |-> FALSE, range |-> <<0, 0>>,
     state |-> "running", mu |-> FALSE,
     thr |-> [t \in Threads |-> IdleThread]]

\* newServer: an empty pool.  pool lists the srvconns Put and not yet Got,
\* conns the srvconns made by pool.New, tasks the goroutines running
\* srvconn.start, fds the files opened, gets and puts count Get and Put of
\* each srvconn
ServerInit ==
    /\ srv \in {[create |-> b, state |-> "running", pool |-> <<>>,
                 conns |-> <<>>, tasks |-> <<>>, fds |-> <<>>,
                 gets |-> <<>>, puts |-> <<>>, accepts |-> 0] :
                b \in BOOLEAN}
    /\ disk = DiskInit
    /\ sLast = NoSetup
    /\ lst = ServerListener
    /\ eps = <<>> /\ cli = Dial /\ net = <<>> /\ nLast = NoSockOp

ServerRunning == srv.state = "running"

\* the sequence without its i-th element
Without(seq, i) == SubSeq(seq, 1, i - 1) \o SubSeq(seq, i + 1, Len(seq))

\* the accept goroutine of server.start: Accept returns for a request, then
\* newconn: pool.Get (a pooled srvconn, or a new one), the file is opened,
\* and a task is started or, after a failure, the srvconn is put back
NewConn ==
    /\ ServerRunning
    /\ srv.accepts < MaxAccepts
    /\ \E raddr \in RequestAddrs, op \in {Rrq, Wrq}, name \in ServerNames,
          dialOk \in BOOLEAN :
         \E a \in {Accepted(raddr, op, name, dialOk, Len(eps) + 1)} :
         LET ends1 == eps \o a.ep
             req == a.ep[1].req
         IN  IF a.res # "conn"
             THEN \* Accept returned a nil Conn: conn.Request() panics
                  /\ srv' = [srv EXCEPT !.state = "panicked",
                                        !.accepts = @ + 1]
                  /\ net' = a.sent
                  /\ sLast' = [NoSetup EXCEPT !.op = "accept",
                                              !.raddr = raddr,
                                              !.err = "nil conn"]
                  /\ UNCHANGED <<eps, disk>>
             ELSE \E ioErr \in BOOLEAN, pick \in 0..Len(srv.pool) :
                  LET id == IF pick = 0 THEN Len(srv.conns) + 1
                            ELSE srv.pool[pick]
                      pool1 == IF pick = 0 THEN srv.pool
                               ELSE Without(srv.pool, pick)
                      conns1 == IF pick = 0
                                THEN Append(srv.conns, newsrvconn)
                                ELSE srv.conns
                      gets1 == IF pick = 0 THEN Append(srv.gets, 1)
                               ELSE [srv.gets EXCEPT ![id] = @ + 1]
                      puts1 == IF pick = 0 THEN Append(srv.puts, 0)
                               ELSE srv.puts
                      sc1 == [conns1[id] EXCEPT !.Conn = Len(ends1)]
                  IN  \E r \in {newconn(sc1, req, disk, srv.fds, srv.create,
                                        ioErr)} :
                      \E pc \in {putconn(r.sc, r.fds, ends1)} :
                  LET failed == r.err # "nil"
                      tasks1 == IF spawns(r.err)
                                THEN Append(srv.tasks,
                                            [sc |-> id, pc |-> "start",
                                             ep |-> Len(ends1),
                                             wrote |-> <<>>])
                                ELSE srv.tasks
                  IN  /\ srv' = [srv EXCEPT
                           !.accepts = @ + 1,
                           !.pool = IF failed THEN Append(pool1, id)
                                    ELSE pool1,
                           !.conns = [conns1 EXCEPT
                                        ![id] = IF failed THEN pc.sc
                                                ELSE r.sc],
                           !.fds = IF failed THEN pc.fds ELSE r.fds,
                           !.gets = gets1,
                           !.puts = IF failed
                                    THEN [puts1 EXCEPT ![id] = @ + 1]
                                    ELSE puts1,
                           !.tasks = tasks1]
                      /\ eps' = IF failed THEN pc.eps ELSE ends1
                      /\ disk' = r.disk
                      /\ net' = IF failed THEN <<ErrTo(r.code, raddr)>>
                                ELSE <<>>
                      /\ sLast' = [op |-> "newconn", sc |-> id, req |-> req,
                                   raddr |-> raddr, err |-> r.err,
                                   code |-> r.code, opened |-> r.opened,
                                   created |-> r.created,
                                   reused |-> r.reused,
                                   put |-> failed, before |-> conns1[id],
                                   was |-> disk[Join(Dir, name)].kind]
    /\ UNCHANGED <<lst, cli, nLast>>
    /\ UNCHANGED <<codecVars, fileVars, procVars>>

\* srvconn.start up to `cl <- s`: the request is logged; nothing is read
\* from the Conn and nothing is written to it, so wrote, the packets the
\* task has sent to its client, stays as it is
srvconnStart(task) == [task EXCEPT !.pc = "sending"]

\* srvconn.start of a task, up to its send on the channel
Start ==
    /\ ServerRunning
    /\ \E k \in 1..Len(srv.tasks) :
         /\ srv.tasks[k].pc = "start"
         /\ srv' = [srv EXCEPT !.tasks[k] = srvconnStart(@)]
         /\ sLast' = [NoSetup EXCEPT !.op = "start", !.sc = srv.tasks[k].sc]
    /\ net' = <<>>
    /\ UNCHANGED <<lst, eps, cli, nLast, disk>>
    /\ UNCHANGED <<codecVars, fileVars, procVars>>

\* the main loop of server.start receives a srvconn from a task, which
\* ends, and calls putconn
Recv ==
    /\ ServerRunning
    /\ \E k \in 1..Len(srv.tasks) :
         \E pc \in {putconn(srv.conns[srv.tasks[k].sc], srv.fds, eps)} :
         LET id == srv.tasks[k].sc
         IN  /\ srv.tasks[k].pc = "sending"
             /\ srv' = [srv EXCEPT !.tasks[k].pc = "done",
                                   !.conns[id] = pc.sc,
                                   !.fds = pc.fds,
                                   !.pool = Append(@, id),
                                   !.puts[id] = @ + 1]
             /\ eps' = pc.eps
             /\ sLast' = [NoSetup EXCEPT !.op = "putconn", !.sc = id,
                                         !.put = TRUE,
                                         !.before = srv.conns[id]]
    /\ net' = <<>>
    /\ UNCHANGED <<lst, cli, nLast, disk>>
    /\ UNCHANGED <<codecVars, fileVars, procVars>>

\* srvconn.start of the draft that opens the file itself, for an accepted
\* request and a srvconn made by newsrvconn(dir, log, cfg): init, and
\* after a failure the error packet
InitStart ==
    /\ ServerRunning
    /\ srv.accepts < MaxAccepts
    /\ \E raddr \in RequestAddrs, op \in {Rrq, Wrq}, name \in ServerNames,
          ioErr \in BOOLEAN :
         \E r \in {init(newsrvconn,
                         ReadWriteRequest(op, name, sOctet, EmptyOpts),
                         disk, srv.fds, srv.create, ioErr)} :
             /\ srv' = [srv EXCEPT !.accepts = @ + 1]
             /\ disk' = r.disk
             /\ net' = IF r.err # "nil" THEN <<ErrTo(r.code, raddr)>>
                       ELSE <<>>
             /\ sLast' = [op |-> "init", sc |-> 0,
                          req |-> ReadWriteRequest(op, name, sOctet,
                                                   EmptyOpts),
                          raddr |-> raddr, err |-> r.err, code |-> r.code,
                          opened |-> r.opened, created |-> r.created,
                          reused |-> r.reused, put |-> FALSE,
                          before |-> newsrvconn,
                          was |-> disk[Join(Dir, name)].kind]
    /\ UNCHANGED <<lst, eps, cli, nLast>>
    /\ UNCHANGED <<codecVars, fileVars, procVars>>

ServerNext == NewConn \/ Start \/ Recv \/ InitStart

-----------------------------------------------------------------------------
(* Shutdown: server.start and server.handleSignals *)

\* the signals signal.Notify passes to handleSignals
Signals == {"SIGHUP", "SIGINT", "SIGTERM"}

\* the exit status of the process: none while it runs, 0 of os.Exit(0), 1 of
\* log.Fatal and logger.Fatalf, 2 of a panic no goroutine recovers
Running0 == 0 - 1
ExitOk == 0
ExitFatal == 1
ExitPanic == 2

\* `break` inside `select` ends the select statement only: the `for` of
\* server.start goes round again and `return s.Close()` is never reached
breakLeaves == "select"

\* server.start has made cl and cc and started handleSignals and the accept
\* goroutine.  hs is the position of handleSignals, main of the main loop,
\* acc of the accept goroutine, shut of the goroutine handleSignals starts;
\* tasks holds the position of every srvconn.start
ShutdownInit ==
    sd = [sig |-> "none", hs |-> "wait", main |-> "select", acc |-> "accept",
          shut |-> "none", lopen |-> TRUE, cc |-> "open", tasks |-> <<>>,
          exit |-> Running0, nilput |-> FALSE, sentClosed |-> FALSE,
          active |-> 0]

ProcessRuns == sd.exit = Running0

\* the tasks that have not handed their srvconn to the main loop
ActiveTasks == {k \in 1..Len(sd.tasks) : sd.tasks[k] # "done"}

\* the process ends with status code: the tasks still active are recorded
exitWith(code) ==
    [sd EXCEPT !.exit = code, !.active = Cardinality(ActiveTasks)]

\* the accept goroutine: Accept returned a request, newconn set it up and
\* `go sconn.start(cc)` started a task
SdAccept ==
    /\ ProcessRuns
    /\ sd.acc = "accept" /\ sd.lopen
    /\ Len(sd.tasks) < MaxTasks
    /\ sd' = [sd EXCEPT !.tasks = Append(@, "run")]
    /\ UNCHANGED snp
    /\ UNCHANGED <<codecVars, fileVars, connVars, serverVars>>

\* the accept goroutine: ReadFromUDP on the closed listener fails, Accept
\* returns the error and log.Fatal(err) ends the process
SdAcceptErr ==
    /\ ProcessRuns
    /\ sd.acc = "accept" /\ ~sd.lopen
    /\ sd' = [exitWith(ExitFatal) EXCEPT !.acc = "fatal"]
    /\ UNCHANGED snp
    /\ UNCHANGED <<codecVars, fileVars, connVars, serverVars>>

\* srvconn.start reaches `cl <- s`: on the open channel it waits for the
\* main loop, on the closed channel the send panics
SdTaskSend ==
    /\ ProcessRuns
    /\ \E k \in 1..Len(sd.tasks) :
         /\ sd.tasks[k] \in {"run", "send"}
         /\ IF sd.cc = "open"
            THEN /\ sd.tasks[k] = "run"
                 /\ sd' = [sd EXCEPT !.tasks[k] = "send"]
            ELSE sd' = [exitWith(ExitPanic) EXCEPT !.sentClosed = TRUE]
    /\ UNCHANGED snp
    /\ UNCHANGED <<codecVars, fileVars, connVars, serverVars>>

\* the main loop: `case conn := <-cc` with a task that is sending, then
\* putconn(conn)
SdRecv ==
    /\ ProcessRuns
    /\ sd.main = "select" /\ sd.cc = "open"
    /\ \E k \in 1..Len(sd.tasks) :
         /\ sd.tasks[k] = "send"
         /\ sd' = [sd EXCEPT !.tasks[k] = "done"]
    /\ UNCHANGED snp
    /\ UNCHANGED <<codecVars, fileVars, connVars, serverVars>>

\* handleSignals: `sig := <-c`.  SIGHUP: restartProcess, which replaces the
\* process image or fails; SIGINT and SIGTERM: on to `s.closed <- true`
SdSignal ==
    /\ ProcessRuns
    /\ sd.hs = "wait"
    /\ \E sig \in Signals, execOk \in BOOLEAN :
         IF sig = "SIGHUP"
         THEN IF execOk
              THEN sd' = [sd EXCEPT !.sig = sig, !.hs = "restarted",
                                    !.exit = ExitOk]
              ELSE sd' = [exitWith(ExitFatal) EXCEPT !.sig = sig]
         ELSE /\ execOk
              /\ sd' = [sd EXCEPT !.sig = sig, !.hs = "closed"]
    /\ UNCHANGED snp
    /\ UNCHANGED <<codecVars, fileVars, connVars, serverVars>>

\* `s.closed <- true` meets `case <-s.closed` of the main loop; handleSignals
\* starts the goroutine that waits on shutdownc and goes to its select (the
\* two second timer is not modelled: no step of the shutdown blocks)
SdClosed ==
    /\ ProcessRuns
    /\ sd.hs = "closed" /\ sd.main = "select"
    /\ sd' = [sd EXCEPT !.hs = "select", !.shut = "recv", !.main = "cl"]
    /\ UNCHANGED snp
    /\ UNCHANGED <<codecVars, fileVars, connVars, serverVars>>

\* `cl <- s` of the main loop meets `cl := <-shutdownc`
SdSendCl ==
    /\ ProcessRuns
    /\ sd.main = "cl" /\ sd.shut = "recv"
    /\ sd' = [sd EXCEPT !.main = "close", !.shut = "close"]
    /\ UNCHANGED snp
    /\ UNCHANGED <<codecVars, fileVars, connVars, serverVars>>

\* the main loop: close(cc); break
SdCloseCc ==
    /\ ProcessRuns
    /\ sd.main = "close"
    /\ sd' = [sd EXCEPT !.cc = "closed", !.main = breakLeaves]
    /\ UNCHANGED snp
    /\ UNCHANGED <<codecVars, fileVars, connVars, serverVars>>

\* the main loop: `case conn := <-cc` on the closed channel yields nil at
\* once, and putconn(nil) reads sconn.buf of a nil srvconn
SdRecvNil ==
    /\ ProcessRuns
    /\ sd.main = "select" /\ sd.cc = "closed"
    /\ sd' = [exitWith(ExitPanic) EXCEPT !.nilput = TRUE, !.main = "dead"]
    /\ UNCHANGED snp
    /\ UNCHANGED <<codecVars, fileVars, connVars, serverVars>>

\* the shutdown goroutine: cl.Close() closes the listener socket
SdClose ==
    /\ ProcessRuns
    /\ sd.shut = "close"
    /\ sd' = [sd EXCEPT !.lopen = FALSE, !.shut = "done"]
    /\ UNCHANGED snp
    /\ UNCHANGED <<codecVars, fileVars, connVars, serverVars>>

\* `donec <- true` meets `case <-donec` of handleSignals: os.Exit(0)
SdDone ==
    /\ ProcessRuns
    /\ sd.shut = "done" /\ sd.hs = "select"
    /\ sd' = [exitWith(ExitOk) EXCEPT !.shut = "end", !.hs = "exit"]
    /\ UNCHANGED snp
    /\ UNCHANGED <<codecVars, fileVars, connVars, serverVars>>

ShutdownNext ==
    \/ SdAccept \/ SdAcceptErr \/ SdTaskSend \/ SdRecv \/ SdSignal
    \/ SdClosed \/ SdSendCl \/ SdCloseCc \/ SdRecvNil \/ SdClose \/ SdDone

-----------------------------------------------------------------------------
(* SnoopWithPacket: the loop of the client that receives a file *)

\* `var prevBlockNum uint16`, which the loop never assigns
prevBlockNum == 0

\* a payload of the length that does not end the transfer
fullBlock == [i \in 1..SnoopBlock |-> 7]

\* the packet SnoopWithPacket is called with
SnoopRequest == ReadWriteRequest(Rrq, sF, sOctet, EmptyOpts)

\* the datagrams that arrive at the client's socket: a full block 1, a short
\* block 2, a full block 0, an Ack, an Error packet and an unknown opcode
SnoopWires ==
    {dataMarshal(DataPacket(1, fullBlock)), dataMarshal(DataPacket(2, <<7>>)),
     dataMarshal(DataPacket(0, fullBlock)), ackMarshal(AckPacket(1)),
     encode(NotDefined, <<>>), <<0, 9, 0, 0>>}

\* a packet written to an address
PacketTo(addr, p) == [to |-> addr, pkt |-> p]

\* one round of the loop of SnoopWithPacket on the Conn c, when the datagram
\* wire from src arrives, or none before the deadline (src = NoAddr): the
\* Conn, the position after the round, the packets written and the error of
\* connect or Read
snoopRound(c, src, wire) ==
    LET round(c1, err, req, dec) ==
            IF err = "timeout"
            THEN \* nerr.Timeout(): return
                 [c |-> c1, pc |-> "returned", wrote |-> req, err |-> err]
            ELSE IF err \notin {"nil", "ErrUnexpectedTID"}
            THEN \* another net.Error: log.Fatal
                 [c |-> c1, pc |-> "fatal", wrote |-> req, err |-> err]
            ELSE IF dec.kind # "ok"
            THEN \* MarshalPacket failed: log.Fatal
                 [c |-> c1, pc |-> "fatal", wrote |-> req, err |-> err]
            ELSE IF dec.pkt.Opcode = Data
            THEN [c |-> c1,
                  pc |-> IF Len(dec.pkt.Data) < SnoopBlock
                            \/ prevBlockNum = dec.pkt.BlockNumber
                         THEN "returned" ELSE "loop",
                  wrote |-> Append(req,
                                   PacketTo(c1.destTID,
                                            AckPacket(dec.pkt.BlockNumber))),
                  err |-> err]
            ELSE [c |-> c1, pc |-> "loop", wrote |-> req, err |-> err]
    IN  IF c.connected
        THEN round(c,
                   IF src = NoAddr /\ sockErr(c.c) = "nil" THEN "timeout"
                   ELSE cliRead(c, src).res,
                   <<>>, Marshal(wire))
        ELSE round(connect(c, src),
                   IF sockErr(c.c) # "nil" THEN sockErr(c.c)
                   ELSE IF src = NoAddr THEN "timeout" ELSE "nil",
                   <<PacketTo(c.destTID, SnoopRequest)>>, Marshal(wire))

NoRound == [src |-> NoAddr, wire |-> <<>>, err |-> "nil", before |-> Dial,
            wrote |-> <<>>]

\* SnoopWithPacket has been called on a Conn made by Dial.  wrote lists the
\* packets written, got the Data blocks received with their senders
SnoopInit ==
    snp = [c |-> Dial, pc |-> "loop", rounds |-> 0, wrote |-> <<>>,
           got |-> {}, last |-> NoRound]

\* one round of the loop
SnoopRound ==
    /\ snp.pc = "loop"
    /\ snp.rounds < MaxSnoop
    /\ \E src \in Addrs \cup {NoAddr}, wire \in SnoopWires :
       \E r \in {snoopRound(snp.c, src, wire)} :
         snp' = [c |-> r.c, pc |-> r.pc, rounds |-> snp.rounds + 1,
                 wrote |-> snp.wrote \o r.wrote,
                 got |-> IF src # NoAddr /\ Uint16(SubSeq(wire, 1, 2)) = Data
                         THEN snp.got \cup
                                {[from |-> src,
                                  block |-> Uint16(SubSeq(wire, 3, 4))]}
                         ELSE snp.got,
                 last |-> [src |-> src, wire |-> wire, err |-> r.err,
                           before |-> snp.c, wrote |-> r.wrote]]
    /\ UNCHANGED sd
    /\ UNCHANGED <<codecVars, fileVars, connVars, serverVars>>

SnoopNext == SnoopRound

-----------------------------------------------------------------------------
(* Specifications *)

\* the parts of the state a specification does not use stay at these values
FileIdle == fb = NewFileBuffer /\ fLast = NoOp
ConnIdle == /\ lst = [c |-> NilSock, connected |-> FALSE, range |-> <<0, 0>>,
                    state |-> "idle", mu |-> FALSE,
                    thr |-> [t \in Threads |-> IdleThread]]
            /\ eps = <<>> /\ cli = Dial /\ net = <<>> /\ nLast = NoSockOp
CodecIdle == /\ cPhase = "idle" /\ cSrc = "none" /\ cPkt = NoPacket
             /\ cIn = NoIn /\ cWire = <<>> /\ cTail = <<>>
             /\ cOut = NoResult /\ cRe = <<>>

ServerIdle ==
    /\ srv = [create |-> FALSE, state |-> "idle", pool |-> <<>>,
              conns |-> <<>>, tasks |-> <<>>, fds |-> <<>>, gets |-> <<>>,
              puts |-> <<>>, accepts |-> 0]
    /\ disk = DiskInit /\ sLast = NoSetup

\* no signal has arrived and SnoopWithPacket has not been called
ShutdownIdle ==
    sd = [sig |-> "none", hs |-> "wait", main |-> "select", acc |-> "accept",
          shut |-> "none", lopen |-> TRUE, cc |-> "open", tasks |-> <<>>,
          exit |-> Running0, nilput |-> FALSE, sentClosed |-> FALSE,
          active |-> 0]
SnoopIdle == snp = <<>>
ProcIdle == ShutdownIdle /\ SnoopIdle

InitCodec == CodecInit /\ FileIdle /\ ConnIdle /\ ServerIdle /\ ProcIdle

SpecCodec == InitCodec /\ [][CodecNext]_vars

InitFile == FileInit /\ CodecIdle /\ ConnIdle /\ ServerIdle /\ ProcIdle

SpecFile == InitFile /\ [][FileNext]_vars

InitConn == ConnInit /\ CodecIdle /\ FileIdle /\ ServerIdle /\ ProcIdle

SpecConn == InitConn /\ [][ConnNext]_vars

InitServer == ServerInit /\ CodecIdle /\ FileIdle /\ ProcIdle

SpecServer == InitServer /\ [][ServerNext]_vars

\* the Go scheduler runs every goroutine that can run: a task reaches its
\* send on the channel, and the main loop, which waits in its select, takes
\* what a task sends
SpecServerFair == SpecServer /\ WF_vars(Start) /\ WF_vars(Recv)

InitShutdown ==
    ShutdownInit /\ SnoopIdle /\ CodecIdle /\ FileIdle /\ ConnIdle /\ ServerIdle

SpecShutdown == InitShutdown /\ [][ShutdownNext]_vars

InitSnoop ==
    SnoopInit /\ ShutdownIdle /\ CodecIdle /\ FileIdle /\ ConnIdle /\ ServerIdle

SpecSnoop == InitSnoop /\ [][SnoopNext]_vars

-----------------------------------------------------------------------------
(* Properties of the codec *)

\* C1: decoding the bytes produced by encoding a well-formed packet yields a
\* packet equal to it in every field, whatever order the options were
\* written in.
RoundTrip ==
    (cPhase = "decoded" /\ cSrc = "packet") => cOut = Ok(cPkt)

\* a request with several options has been encoded and decoded
RoundTripWitness ==
    /\ cPhase = "decoded" /\ cSrc = "packet"
    /\ cPkt.Opcode = Wrq
    /\ DOMAIN cPkt.Options = {Blksize, Timeout, Windowsize}
    /\ cPkt.Options[Blksize] = 65464
    /\ cOut.kind = "ok"

\* the value ranges the specification gives for each option
SpecInRange(opt, v) ==
    CASE opt = Blksize    -> v \in 8..65464
      [] opt = Timeout    -> v \in 1..255
      [] opt = Tsize      -> v >= 0
      [] opt = Windowsize -> v \in 1..65535
      [] OTHER            -> FALSE

\* pair k of an option list is acceptable: a recognised name with a decimal
\* value in range
GoodPair(strs, k) ==
    /\ MarshalOpts(strs[2 * k - 1]) # Unknown
    /\ ~Atoi(strs[2 * k]).err
    /\ SpecInRange(MarshalOpts(strs[2 * k - 1]), Atoi(strs[2 * k]).val)

\* the options a decoder that drops exactly the offending pairs returns
RECURSIVE ExpectedOpts(_, _)
ExpectedOpts(strs, k) ==
    IF k = 0 THEN EmptyOpts
    ELSE IF GoodPair(strs, k)
         THEN (MarshalOpts(strs[2 * k - 1]) :> Atoi(strs[2 * k]).val)
              @@ ExpectedOpts(strs, k - 1)
         ELSE ExpectedOpts(strs, k - 1)

\* a request datagram made of whole option pairs, at least one of them
\* offending (unknown name, non-numeric value, or a blksize, timeout or
\* windowsize out of range)
HasOffendingPair ==
    /\ cSrc = "wire" /\ cIn.op \in {Rrq, Wrq}
    /\ Len(cIn.strs) % 2 = 0
    /\ \E k \in 1..(Len(cIn.strs) \div 2) : ~GoodPair(cIn.strs, k)
    /\ \A k \in 1..(Len(cIn.strs) \div 2) :
          MarshalOpts(cIn.strs[2 * k - 1]) = Tsize
             => Atoi(cIn.strs[2 * k]).val >= 0

DecodedOptionsInRange ==
    (cPhase = "decoded" /\ cOut.kind = "ok"
       /\ cOut.pkt.Opcode \in {Rrq, Wrq, OAck}) =>
        \A o \in DOMAIN cOut.pkt.Options :
            o # Unknown /\ SpecInRange(o, cOut.pkt.Options[o])

-----------------------------------------------------------------------------
(* Properties of the file view *)

\* a ReadNext(b) with a non-empty b has returned (not panicked) with count k,
\* 0 <= k <= len(b)
ReadNextReturned ==
    /\ fLast.op = "ReadNext" /\ fLast.err # "panic"
    /\ fLast.len >= 1 /\ fLast.n \in 0..fLast.len

\* C6 as claimed: after a ReadNext(b) that returns k, for every k with
\* 0 <= k <= len(b), BufferLen() is k and ReadBuffer returns exactly the k
\* bytes placed in b.
ReadNextReplaysAnyCount ==
    ReadNextReturned =>
        /\ fbBufferLen(fb) = fLast.n
        /\ fbReadBuffer(fb, fLast.n).data = fLast.data

\* C6 as amended: after a ReadNext(b) that returns k, for every k with
\* 1 <= k <= len(b), BufferLen() is k and ReadBuffer returns exactly the k
\* bytes placed in b.
ReadNextReplaysPositiveCount ==
    (ReadNextReturned /\ fLast.n >= 1) =>
        /\ fbBufferLen(fb) = fLast.n
        /\ fbReadBuffer(fb, fLast.n).n = fLast.n
        /\ fbReadBuffer(fb, fLast.n).data = fLast.data

\* a ReadNext that read something has replaced an earlier, different block
ReadNextReplaysWitness ==
    /\ ReadNextReturned /\ fLast.n >= 1
    /\ fLast.prev # <<>> /\ fLast.prev # fLast.data
    /\ fb.buf = fLast.data

\* C7: after any sequence of WriteNext calls the retransmission buffer holds
\* exactly the first k bytes of the most recent WriteNext(b) that returned
\* k, and no bytes of earlier blocks.
WriteNextKeepsOneBlock ==
    (fLast.op = "WriteNext" /\ fLast.n >= 1) =>
        /\ fbBufferLen(fb) = fLast.n
        /\ fb.buf = SubSeq(fLast.data, 1, fLast.n)

\* C8: a ReadNext that reads zero bytes at the end of the file leaves the
\* retransmission buffer as it was before the call.
ReadNextAtEOFKeepsBuffer ==
    (fLast.op = "ReadNext" /\ fLast.n = 0 /\ fLast.err = "EOF") =>
        fb.buf = fLast.prev

\* a ReadNext hit the end of the file while a block was kept
ReadNextAtEOFWitness ==
    /\ fLast.op = "ReadNext" /\ fLast.n = 0 /\ fLast.err = "EOF"
    /\ fLast.len > 0 /\ Len(fLast.prev) >= 1
    /\ fb.buf = fLast.prev

\* C9: Read(b) and ReadNext(b) read exactly len(b) bytes: len(b) and no error
\* when that many remain, the short count with an unexpected-EOF error when
\* fewer but some remain, 0 and EOF when nothing remains.
ReadExact ==
    (fLast.op \in {"Read", "ReadNext"} /\ fLast.err # "panic"
       /\ fLast.len >= 1) =>
        /\ fLast.rem >= fLast.len => (fLast.n = fLast.len /\ fLast.err = "nil")
        /\ (fLast.rem > 0 /\ fLast.rem < fLast.len) =>
              (fLast.n = fLast.rem /\ fLast.err = "ErrUnexpectedEOF")
        /\ fLast.rem = 0 => (fLast.n = 0 /\ fLast.err = "EOF")

\* C10: Read and Write leave the retransmission buffer as it was, on a fresh
\* view and after earlier ReadNext and WriteNext calls.
PlainReadWriteKeepBuffer ==
    (fLast.op \in {"Read", "Write"}) => fb.buf = fLast.prev

\* a Read returned bytes while the retransmission buffer held a block
PlainReadWriteWitness ==
    /\ fLast.op = "Read" /\ fLast.n >= 1 /\ fLast.err = "nil"
    /\ Len(fLast.prev) >= 1 /\ fLast.data # fLast.prev
    /\ fb.buf = fLast.prev

-----------------------------------------------------------------------------
(* Properties of Conn *)

\* C4: on a connected endpoint whose socket is in use, Read returns
\* ErrUnexpectedTID for every datagram that does not come from the address
\* (IP and port) of the peer, returns a datagram of the peer without error,
\* and the endpoint stays open and connected
UnexpectedTIDRejected ==
    (nLast.op = "Read" /\ nLast.before.connected
        /\ sockErr(nLast.before.c) = "nil") =>
        /\ nLast.src # nLast.before.peer => nLast.res = "ErrUnexpectedTID"
        /\ nLast.src = nLast.before.peer => nLast.res = "ok"
        /\ eps[nLast.ep].c.open /\ eps[nLast.ep].connected

\* C5: once a Conn is connected its destTID does not change and it stays
\* connected, whatever datagrams arrive and whatever is called on it
DestTIDFixed ==
    [][/\ \A i \in 1..Len(eps) :
            /\ Len(eps') >= i
            /\ eps'[i].connected
            /\ eps'[i].destTID = eps[i].destTID
       /\ cli.connected =>
            cli'.connected /\ cli'.destTID = cli.destTID]_vars

\* C5: a connected client has just refused a datagram of another sender,
\* beside an endpoint of the server
DestTIDFixedWitness ==
    /\ nLast.op = "CliRead" /\ nLast.res = "ErrUnexpectedTID"
    /\ nLast.before.connected /\ nLast.src # nLast.before.destTID
    /\ cli.connected /\ cli.destTID = nLast.before.destTID
    /\ Len(eps) >= 1 /\ eps[1].connected

\* C12: the endpoint AcceptRange(lo, hi) returns has a usable socket, bound
\* to a port within lo..hi when the range is not (0, 0)
PortWithinRange ==
    (nLast.op = "Accept" /\ nLast.res = "conn") =>
        LET c == eps[nLast.ep].c
        IN  /\ ~c.nil /\ c.open
            /\ lst.range # <<0, 0>> =>
                   lst.range[1] <= c.local /\ c.local <= lst.range[2]

\* the last step read a datagram that carries an opcode other than RRQ/WRQ
IllegalOpcodeRead ==
    /\ nLast.op = "Accept"
    /\ Len(nLast.before.wire) >= 2
    /\ Uint16(SubSeq(nLast.before.wire, 1, 2)) \notin {Rrq, Wrq}

UndecodableRequestRead ==
    /\ nLast.op = "Accept"
    /\ Len(nLast.before.wire) >= 2
    /\ Uint16(SubSeq(nLast.before.wire, 1, 2)) \in {Rrq, Wrq}
    /\ Decoded[readInto(nLast.before.wire)].kind # "ok"

\* C14: for a request datagram that fails to decode, Accept sends one
\* NotDefined error packet to the sender and stays in its loop: it neither
\* returns nor crashes
UndecodableRequestAnswered ==
    UndecodableRequestRead =>
        /\ net = <<ErrTo(NotDefined, nLast.src)>>
        /\ Len(eps) = nLast.before.n
        /\ nLast.res = "continue"
        /\ lst.state = "running"
        /\ lst.thr[nLast.before.t].pc = "polling"

\* the threads inside the loop of AcceptRange, reading the listener's socket
Polling == {t \in Threads : lst.thr[t].pc = "polling"}

\* the calls of Accept that returned endpoint i: the thread and the position
\* among the endpoints that thread got
Deliveries(i) ==
    {tk \in Threads \X (1..MaxEndpoints) :
        /\ tk[2] <= Len(lst.thr[tk[1]].got)
        /\ lst.thr[tk[1]].got[tk[2]] = i}

-----------------------------------------------------------------------------
(* Properties of the server *)

\* the last step set up a request: newconn, or init of the later draft
SetUp == sLast.op \in {"newconn", "init"}

\* the path the request of the last step names
RequestPath == Join(Dir, sLast.req.Filename)

\* the file name is absolute or leads out of the base directory
Escapes(name) ==
    \/ (name # <<>> /\ name[1] = sSlash)
    \/ ~Inside(Join(Dir, name), Dir)

\* C11: a file name that escapes the base directory (absolute, or through
\* "..") is answered with AccessViolation and nothing is opened for it; no
\* file outside the base directory is opened, created or truncated
PathStaysInBase ==
    /\ \A k \in 1..Len(srv.fds) : Inside(srv.fds[k].path, Dir)
    /\ \A q \in DOMAIN disk : ~Inside(q, Dir) => disk[q] = DiskInit[q]
    /\ (SetUp /\ Escapes(sLast.req.Filename)) =>
           /\ net = <<ErrTo(AccessViolation, sLast.raddr)>>
           /\ sLast.opened = <<>>

\* how often id is in the pool
InPool(id) == Cardinality({i \in 1..Len(srv.pool) : srv.pool[i] = id})

\* the tasks that have not yet handed srvconn id to the main loop
TasksUsing(id) ==
    {k \in 1..Len(srv.tasks) : srv.tasks[k].sc = id /\ srv.tasks[k].pc # "done"}

\* C16: a srvconn has one owner at most: it is not in the pool while a task
\* uses it, it is not with two tasks, it is in the pool once at most, and it
\* was put back at most as often as it was taken
SingleOwner ==
    \A id \in 1..Len(srv.conns) :
        /\ InPool(id) + Cardinality(TasksUsing(id)) <= 1
        /\ srv.puts[id] <= srv.gets[id]

\* C16: a srvconn taken from the pool a second time is with a task
SingleOwnerWitness ==
    \E id \in 1..Len(srv.conns) :
        /\ srv.gets[id] >= 2 /\ srv.puts[id] >= 1
        /\ TasksUsing(id) # {}

\* C17: a WRQ for a file that does not exist: without Create the client
\* gets FileNotFound and no file is made; with Create the file is made, the
\* srvconn is set up and no error packet is sent
WrqMissingFollowsCreate ==
    (/\ SetUp /\ sLast.req.Opcode = Wrq /\ ~sLast.reused
     /\ sLast.err # "other"
     /\ sLast.was = "missing") =>
        IF srv.create
        THEN /\ net = <<>> /\ sLast.err = "nil"
             /\ disk[RequestPath].kind = "file"
             /\ sLast.opened = <<RequestPath>>
        ELSE /\ net = <<ErrTo(FileNotFound, sLast.raddr)>>
             /\ disk[RequestPath].kind = "missing"

\* the error code the file open policy gives an error of open or stat
PolicyCode(err) ==
    CASE err = "ErrNotExist" -> FileNotFound
      [] err = "ErrPermission" -> AccessViolation
      [] OTHER -> NotDefined

\* C18: when the file of an RRQ cannot be opened the error packet carries
\* FileNotFound for a missing file, AccessViolation for a denied permission
\* and NotDefined otherwise, whatever Create is
RrqOpenErrorMapped ==
    (SetUp /\ sLast.req.Opcode = Rrq /\ sLast.err # "nil") =>
        net = <<ErrTo(PolicyCode(sLast.err), sLast.raddr)>>

\* C19: at checkout a view whose file matches the request is reused;
\* otherwise its old file is closed and the view is bound to the file just
\* opened, and no file that no srvconn holds stays open
CheckoutRebinds ==
    /\ (sLast.op = "newconn" /\ sLast.err = "nil") =>
         LET sc == srv.conns[sLast.sc]
             old == sLast.before.f
         IN  IF fbIs(sLast.before.buf, srv.fds, RequestPath)
             THEN sLast.reused /\ sc.f = old /\ sc.buf = sLast.before.buf
             ELSE /\ sc.f # old /\ sc.buf.f = sc.f
                  /\ srv.fds[FdIndex(sc.f)].path = RequestPath
                  /\ old # "" => ~srv.fds[FdIndex(old)].open
    /\ \A k \in 1..Len(srv.fds) :
         srv.fds[k].open =>
            \E id \in 1..Len(srv.conns) : srv.conns[id].f = FdName(k)

\* C20: after putconn the srvconn is in the pool with an empty replay
\* buffer, its file, if any, at offset 0, and its socket closed
PutconnLeavesClean ==
    sLast.put =>
        LET sc == srv.conns[sLast.sc]
        IN  /\ InPool(sLast.sc) >= 1
            /\ fbBufferLen(sc.buf) = 0
            /\ sc.f # "" => srv.fds[FdIndex(sc.f)].off = 0
            /\ ~eps[sc.Conn].c.open

\* C20: the main loop has put back a srvconn that holds a file and whose
\* socket was open
PutconnWitness ==
    /\ sLast.op = "putconn" /\ sLast.put
    /\ sLast.before.f # ""
    /\ InPool(sLast.sc) = 1
    /\ ~eps[srv.conns[sLast.sc].Conn].c.open

\* C23: every endpoint Accept returned is eventually closed while the server
\* keeps running: after its task has completed, or after its set-up failed
EndpointsEventuallyClosed ==
    \A i \in 1..MaxAccepts :
        (Len(eps) >= i /\ eps[i].c.open)
            ~> ((Len(eps) >= i /\ ~eps[i].c.open) \/ ~ServerRunning)

\* C23: the endpoint of a finished task is closed while the endpoint of a
\* later request is still in use
EndpointsClosedWitness ==
    /\ ServerRunning /\ Len(eps) >= 2
    /\ sLast.op = "putconn"
    /\ ~eps[1].c.open /\ eps[2].c.open

-----------------------------------------------------------------------------
(* Properties of the shutdown *)

\* the process has ended after a SIGINT or a SIGTERM was taken
EndedAfterSignal ==
    sd.sig \in {"SIGINT", "SIGTERM"} /\ sd.exit # Running0

\* C21: when the process ends after a SIGINT or SIGTERM, the listener
\* socket is closed, no transfer task was still active (the active tasks
\* were allowed to finish) and the loop of server.start has terminated
ShutdownGraceful ==
    EndedAfterSignal =>
        /\ ~sd.lopen
        /\ sd.active = 0
        /\ sd.main = "return"

\* C22: a shutdown triggered by SIGINT or SIGTERM ends the process with exit
\* code 0, on every interleaving of handleSignals, the accept goroutine
\* and the main loop
ShutdownExitsZero ==
    EndedAfterSignal => sd.exit = ExitOk

-----------------------------------------------------------------------------
(* Properties of the transfer *)

\* C24: every Ack(n) with n >= 1 that the receiving loop writes to its peer
\* was preceded by the receipt of Data(n) from that peer
AckOnlyReceived ==
    \A k \in 1..Len(snp.wrote) :
        (snp.wrote[k].pkt.Opcode = Ack /\ snp.wrote[k].pkt.BlockNumber >= 1)
            => [from |-> snp.wrote[k].to,
                block |-> snp.wrote[k].pkt.BlockNumber] \in snp.got

\* the last round read a datagram of a foreign TID during an established
\* transfer
ForeignTIDRead ==
    /\ snp.last.before.connected
    /\ snp.last.src # NoAddr
    /\ snp.last.src # snp.last.before.destTID

\* C25: a datagram from a foreign TID during an established transfer is
\* answered with an Error(UnknownTID) packet to its sender and changes
\* nothing of the transfer: nothing is written to the peer, the peer stays
\* the same and the loop goes on
ForeignTIDAnswered ==
    ForeignTIDRead =>
        /\ \E k \in 1..Len(snp.last.wrote) :
              /\ snp.last.wrote[k].to = snp.last.src
              /\ snp.last.wrote[k].pkt.Opcode = Error
              /\ snp.last.wrote[k].pkt.ErrorCode = UnknownTID
        /\ \A k \in 1..Len(snp.last.wrote) :
              snp.last.wrote[k].to # snp.last.before.destTID
        /\ snp.c = snp.last.before
        /\ snp.pc = "loop"

\* the tasks whose srvconn.start has run, up to the hand-over of the srvconn
Started == {k \in 1..Len(srv.tasks) : srv.tasks[k].pc # "start"}

\* C26: a sender whose block is not acknowledged sends it again: a task
\* that served an RRQ and ended without an Ack (the server reads none) has
\* written its Data block and at least one retransmission of it
UnackedBlockRetransmitted ==
    \A k \in Started :
        (srv.tasks[k].pc = "done" /\ eps[srv.tasks[k].ep].req.Opcode = Rrq) =>
            \E i \in 1..Len(srv.tasks[k].wrote) :
            \E j \in (i + 1)..Len(srv.tasks[k].wrote) :
                /\ srv.tasks[k].wrote[i].Opcode = Data
                /\ srv.tasks[k].wrote[j] = srv.tasks[k].wrote[i]

\* C27: for a request without options the first packet a task sends from
\* its endpoint is Data block 1 for an RRQ and Ack block 0 for a WRQ
FirstPacketOfTransfer ==
    \A k \in Started :
        eps[srv.tasks[k].ep].req.Options = EmptyOpts =>
            /\ srv.tasks[k].wrote # <<>>
            /\ srv.tasks[k].wrote[1].Opcode =
                  (IF eps[srv.tasks[k].ep].req.Opcode = Rrq THEN Data ELSE Ack)
            /\ srv.tasks[k].wrote[1].BlockNumber =
                  (IF eps[srv.tasks[k].ep].req.Opcode = Rrq THEN 1 ELSE 0)

-----------------------------------------------------------------------------
(* Properties of the codec: encoding what was decoded *)

\* a wire input with its option pairs in the order perm (a string left over
\* behind the last pair stays where it is)
Rearranged(in, perm) ==
    [in EXCEPT !.strs =
        Concat([i \in 1..Len(perm) |->
                  <<in.strs[2 * perm[i] - 1], in.strs[2 * perm[i]]>>])
        \o SubSeq(in.strs, 2 * Len(perm) + 1, Len(in.strs))]

\* the byte strings that are the datagram cWire up to the order of its
\* option pairs
UpToOptionOrder ==
    CASE cSrc = "wire" ->
           {WireOf(Rearranged(cIn, perm)) :
               perm \in Perms(1..(Len(cIn.strs) \div 2))}
      [] cSrc = "packet" ->
           {Unmarshal(cPkt, order) : order \in Perms(DOMAIN cPkt.Options)}
      [] OTHER -> {cWire}

\* C28: for every datagram b that decodes successfully, encoding the decoded
\* packet yields the bytes of b, up to the order of the option pairs.
ReencodeIdentical ==
    cPhase = "reencoded" => cRe \in UpToOptionOrder

\* C29: encoding the same packet twice yields the same bytes: the option
\* pairs of a request or an OAck are written in one order, that of their
\* insertion.
EncodeDeterministic ==
    cPhase = "again" => cRe = cWire

\* C30: decoding a Data or Ack datagram shorter than 4 bytes returns an
\* error value: no panic and no packet.
TruncatedReported ==
    (/\ cPhase = "decoded" /\ cSrc = "raw"
     /\ Len(cWire) < 4
     /\ Uint16(SubSeq(cWire, 1, 2)) \in {Data, Ack})
    => cOut = Failed

-----------------------------------------------------------------------------
(* Properties of the codec: what a decoded request holds *)

TransferModes == {sNetascii, sOctet, sMail}

\* C31: a read/write request that carries a mode decodes successfully only
\* when the mode is netascii, octet or mail, in whatever case.
ModeValidated ==
    (/\ cPhase = "decoded" /\ cOut.kind = "ok"
     /\ cOut.pkt.Opcode \in {Rrq, Wrq}
     /\ cOut.pkt.Mode # <<>>)
    => ToLower(cOut.pkt.Mode) \in TransferModes

\* C37: every request that decodes successfully has a file name and a mode
\* that are not empty.
RequestFieldsPresent ==
    (/\ cPhase = "decoded" /\ cOut.kind = "ok"
     /\ cOut.pkt.Opcode \in {Rrq, Wrq})
    => (cOut.pkt.Filename # <<>> /\ cOut.pkt.Mode # <<>>)

-----------------------------------------------------------------------------
(* Properties of the file view: Close and Reset *)

\* Close has returned on a view that was set up for writing
CloseReturned == fLast.op = "Close" /\ fb.w

ResetEmptiesBuffer ==
    [][fLast'.op = "Reset" =>
          /\ fbBufferLen(fb') = 0
          /\ fbReadBuffer(fb', MaxBlock).n = 0
          /\ fb'.rd = fb.rd /\ fb'.r = fb.r
          /\ fb'.wr = fb.wr /\ fb'.w = fb.w]_vars

\* C33: Reset has emptied a retransmission buffer that held a block, on a
\* view with bytes read ahead and bytes not yet flushed
ResetWitness ==
    /\ fLast.op = "Reset"
    /\ Len(fLast.prev) >= 1 /\ fb.buf = <<>>
    /\ fb.wr.buf # <<>> /\ fb.rd.buf # <<>>

-----------------------------------------------------------------------------
(* Properties of Conn: what Accept returns *)

\* C34: a request datagram longer than the buffer of AcceptRange is
\* rejected: no endpoint is returned for it.
OversizeRejected ==
    (nLast.op = "Accept" /\ Len(nLast.before.wire) > AcceptBufLen) =>
        nLast.res # "conn"

\* C36: AcceptRange returns an endpoint with a socket and a nil error, or
\* no endpoint and an error that is not nil.
AcceptOneOfTwo ==
    (nLast.op = "Accept" /\ nLast.res \in {"conn", "nil"}) =>
        \/ /\ nLast.res = "conn"
           /\ ~eps[nLast.ep].c.nil
           /\ ~nLast.before.err
        \/ /\ nLast.res = "nil"
           /\ nLast.before.err

-----------------------------------------------------------------------------
(* Properties of the server: a failed open, and the view of a request *)

\* newconn has returned an error for the request it was given
OpenFailed == sLast.op = "newconn" /\ sLast.err # "nil"

\* C35: when the file of an accepted request cannot be opened, one error
\* packet is sent to the client of the request, the endpoint is closed and
\* its srvconn is back in the pool, no task is started that could send
\* again, and the server keeps running.
FailedOpenReported ==
    OpenFailed =>
        LET sc == srv.conns[sLast.sc]
        IN  /\ Len(net) = 1 /\ net[1].to = sLast.raddr
            /\ ~eps[sc.Conn].c.open
            /\ InPool(sLast.sc) = 1
            /\ \A k \in 1..Len(srv.tasks) : srv.tasks[k].ep # sc.Conn
            /\ ServerRunning

\* C35: the second of two requests whose files could not be opened has
\* been answered: the accept loop went on after the first failure
FailedOpenWitness ==
    /\ OpenFailed /\ sLast.err = "ErrNotExist"
    /\ net = <<ErrTo(FileNotFound, sLast.raddr)>>
    /\ srv.accepts = 2 /\ Len(eps) = 2
    /\ ~eps[1].c.open /\ ~eps[2].c.open
    /\ srv.tasks = <<>>

\* C38: the view newconn hands to a transfer is that of the request: its
\* file is the one at the path of the request, it has a reader and no
\* writer for an RRQ and a writer and no reader for a WRQ, and for an RRQ
\* the first ReadNext yields the first byte of the file.
ViewOfRequest ==
    (sLast.op = "newconn" /\ sLast.err = "nil") =>
        LET sc == srv.conns[sLast.sc]
            req == sLast.req
        IN  /\ sc.f # ""
            /\ srv.fds[FdIndex(sc.f)].path = RequestPath
            /\ sc.buf.r = (req.Opcode = Rrq)
            /\ sc.buf.w = (req.Opcode = Wrq)
            /\ (req.Opcode = Rrq /\ disk[RequestPath].size >= 1) =>
                   fbReadNext(sc.buf, 1).data = <<1>>

-----------------------------------------------------------------------------
(* Properties of the shutdown: the completion channel *)

\* C39: on every interleaving of the shutdown with the running tasks, no
\* task sends on the closed completion channel and putconn is not called
\* with a nil srvconn: the main loop receives nothing from the channel after
\* it closed it.
ClosedChannelUnused ==
    /\ ~sd.sentClosed
    /\ ~sd.nilput

====
